---- MODULE Spec2Model ----
(***************************************************************************)
(* A model of the DART pump gateway: the line protocol (frame build,       *)
(* CRC-16, stream reassembly, frame parsing), the transaction encoder and  *)
(* decoder, the serial handler (ingress pipeline and frame sending), the   *)
(* POST /send route and the client's pump-state projection.                *)
(*                                                                         *)
(* Bytes are integers 0..255, frames are sequences of bytes.  Prices are   *)
(* carried as integers: a decoded price is in thousandths (the code's      *)
(* value / 1000), a price to encode is in ten-thousandths (the code's      *)
(* Math.round(price * 10000)).  Volumes and amounts are in hundredths.     *)
(***************************************************************************)
EXTENDS Integers, Sequences, FiniteSets, TLC

VARIABLES
    wire,        \* bytes the pump has put on the line, not yet read by the port
    fed,         \* history: the frames the pump has put on the line, in order
    byteBuffer,  \* SerialHandler.byteBuffer
    extracted,   \* history: every frame extractFrames handed to processFrame
    wsQueue,     \* 'message' events broadcast to the client, not yet handled
    emitted,     \* history: every 'message' event emitted, in order
    pumpState,   \* App's pumpState (NoState is null)
    now,         \* the clock (Date.now()), in milliseconds
    isConnected, \* SerialHandler.isConnected
    portWrites,  \* history: the buffers handed to port.write, in order
    calls,       \* the POST /send requests handled so far, each with its phase
    serverLog,   \* history: 'unknownTransaction' events and 'Unrecognized frame' logs
    delivered,   \* history: the 'pumpMessage' events the client handled, with its clock
    probe,       \* the last call of a codec function made on its own, with its result
    port         \* SerialHandler.port and config, the SerialPort objects created so
                 \* far, the close callbacks not yet run and, as history, byteBuffer
                 \* as it was when a port last closed by itself

vars == <<wire, fed, byteBuffer, extracted, wsQueue, emitted, pumpState, now,
          isConnected, portWrites, calls, serverLog, delivered, probe, port>>

NoState == [none |-> TRUE]

(***************************************************************************)
(* Bounds of the model.                                                    *)
(***************************************************************************)
MaxFed == 2        \* frames the pump sends in one behaviour (SpecStream, SpecPump)
MaxInbound == 1    \* frames the pump sends in one behaviour of Spec
MaxCalls == 2      \* POST /send requests in one behaviour of Spec
MaxApiCalls == 1   \* POST /send requests in one behaviour of SpecApi
MaxTicks == 2      \* clock ticks in one behaviour
TickMs == 1000     \* the step of the clock
MaxStatus == 3     \* status frames the pump sends in one behaviour of SpecStatus
MaxFlap == 4       \* status frames the pump sends in one behaviour of SpecFlap
MaxNoise == 4      \* items the line carries in one behaviour of SpecNoise
NoiseLen == 400    \* bytes of one run of line noise
MaxErrors == 1     \* 'error' events and failed opens in one behaviour of SpecTransport
MaxDevices == 2    \* SerialPort objects created in one behaviour

(***************************************************************************)
(* Program constants.                                                      *)
(***************************************************************************)
ETX == 3
SF == 250
MIN_PUMP_ADDRESS == 80
MAX_PUMP_ADDRESS == 111
BufferCap == 1000
BufferKeep == 500
WindowMs == 2000
HistoryMax == 10

(***************************************************************************)
(* Sequence and bit helpers.                                               *)
(***************************************************************************)
Slice(s, from, to) ==
    \* JavaScript s.slice(from, to) with 0-based, end-exclusive indices
    SubSeq(s, from + 1, IF to > Len(s) THEN Len(s) ELSE to)

RECURSIVE BitXor(_, _)
BitXor(a, b) ==
    IF a = 0 THEN b
    ELSE IF b = 0 THEN a
    ELSE (((a % 2) + (b % 2)) % 2) + 2 * BitXor(a \div 2, b \div 2)

RECURSIVE BitAnd(_, _)
BitAnd(a, b) ==
    IF a = 0 \/ b = 0 THEN 0
    ELSE ((a % 2) * (b % 2)) + 2 * BitAnd(a \div 2, b \div 2)



(***************************************************************************)
(* line-protocol.ts: CRC-16 and frame construction.                        *)
(***************************************************************************)
\* the inner loop of calculateCRC16: n shifts of the 16-bit register
CrcShift[crc \in Nat, n \in Nat] ==
    IF n = 0 THEN crc
    ELSE CrcShift[(IF (crc \div 32768) % 2 = 1
                   THEN BitXor(crc * 2, 4129)
                   ELSE crc * 2) % 65536, n - 1]

\* the outer loop of calculateCRC16 over the bytes from index i on
CrcFold[crc \in Nat, data \in Seq(Nat), i \in Nat] ==
    IF i > Len(data) THEN crc
    ELSE CrcFold[CrcShift[BitXor(crc, data[i] * 256), 8], data, i + 1]

\* calculateCRC16 with the register starting at 0
calculateCRC16ZeroInit(data) ==
    LET crc == CrcFold[0, data, 1]
    IN  [crc1 |-> (crc \div 256) % 256, crc2 |-> crc % 256]

calculateCRC16(data) ==
    LET crc == CrcFold[65535, data, 1]
    IN  [crc1 |-> (crc \div 256) % 256, crc2 |-> crc % 256]

createTransaction(trans, data) == [trans |-> trans, lng |-> Len(data), data |-> data]

RECURSIVE TransactionBytes(_)
TransactionBytes(transactions) ==
    IF transactions = <<>> THEN <<>>
    ELSE <<Head(transactions).trans, Head(transactions).lng>>
            \o Head(transactions).data \o TransactionBytes(Tail(transactions))

\* buildFrame, for an address already known to be in range
buildFrame(address, control, transactions) ==
    LET frameData == <<address, control>> \o TransactionBytes(transactions)
        crc == calculateCRC16(frameData)
    IN  frameData \o <<crc.crc1, crc.crc2, ETX, SF>>

buildFrameThrows(address) == address < MIN_PUMP_ADDRESS \/ address > MAX_PUMP_ADDRESS

(***************************************************************************)
(* line-protocol.ts: stream reassembly.                                    *)
(***************************************************************************)
\* the wrapper test of extractFrames at 0-based index i
\* IsWrapperAt with no wrapper block ever recognized
IsWrapperAtNever(byteStream, i) == FALSE

IsWrapperAt(byteStream, i) ==
    /\ i + 2 < Len(byteStream)
    /\ byteStream[i + 3] = SF
    /\ byteStream[i + 1] \in {80, 81}

EndsFrame(current) ==
    /\ Len(current) >= 2
    /\ current[Len(current) - 1] = ETX
    /\ current[Len(current)] = SF

\* the first 0-based index from i on where the loop does more than push a
\* byte: a wrapper block starts there or the byte is SF (only a pushed SF can
\* end a frame); the length of the stream when there is none
NextStop(byteStream, i) ==
    LET stops == {j \in i..(Len(byteStream) - 1) :
                    IsWrapperAt(byteStream, j) \/ byteStream[j + 1] = SF}
    IN  IF stops = {} THEN Len(byteStream)
        ELSE CHOOSE j \in stops : \A k \in stops : j <= k

\* the while loop of extractFrames; the iterations up to the next stop, which
\* only push a byte, are taken together
RECURSIVE ExtractLoop(_, _, _, _)
ExtractLoop(byteStream, i, current, frames) ==
    IF i >= Len(byteStream) THEN frames
    ELSE IF IsWrapperAt(byteStream, i)
         THEN ExtractLoop(byteStream, i + 3, current, frames)
         ELSE IF NextStop(byteStream, i) > i
         THEN ExtractLoop(byteStream, NextStop(byteStream, i),
                          current \o SubSeq(byteStream, i + 1, NextStop(byteStream, i)),
                          frames)
         ELSE LET cur == Append(current, byteStream[i + 1])
              IN  IF EndsFrame(cur)
                  THEN ExtractLoop(byteStream, i + 1, <<>>, Append(frames, cur))
                  ELSE ExtractLoop(byteStream, i + 1, cur, frames)

extractFrames(byteStream) == ExtractLoop(byteStream, 0, <<>>, <<>>)

\* SerialHandler.cleanupBuffer, as a function of the buffer
cleanupBuffer(buf) ==
    LET ends == {i \in 1..(Len(buf) - 1) : buf[i] = 3 /\ buf[i + 1] = 250}
        \* 0-based: the loop finds the largest i with buf[i-1] = 03, buf[i] = FA
        lastFrameEnd == IF ends = {} THEN -1
                        ELSE (CHOOSE i \in ends : \A j \in ends : j <= i) + 1
    IN  IF lastFrameEnd > 0 THEN Slice(buf, lastFrameEnd, Len(buf))
        ELSE IF Len(buf) > BufferCap
             THEN SubSeq(buf, Len(buf) - BufferKeep + 1, Len(buf))
             ELSE buf

\* parseFrame; NullFrame is its null
NullFrame == [null |-> TRUE]

\* ParseLoop with a transaction that ends right before the CRC taken as incomplete
RECURSIVE ParseLoopStrict(_, _, _)
ParseLoopStrict(frame, pos, transactions) ==
    IF ~(pos < Len(frame) - 4) THEN transactions
    ELSE IF pos + 1 >= Len(frame) - 4 THEN transactions
    ELSE LET trans == frame[pos + 1]
             lng == frame[pos + 2]
         IN  IF lng < 0 \/ lng > 255 THEN transactions
             ELSE IF pos + 2 + lng >= Len(frame) - 4 THEN transactions
             ELSE ParseLoopStrict(frame, pos + 2 + lng,
                                  Append(transactions,
                                         [trans |-> trans, lng |-> lng,
                                          data |-> Slice(frame, pos + 2, pos + 2 + lng)]))

RECURSIVE ParseLoop(_, _, _)
ParseLoop(frame, pos, transactions) ==
    IF ~(pos < Len(frame) - 4) THEN transactions
    ELSE IF pos + 1 >= Len(frame) - 4 THEN transactions
    ELSE LET trans == frame[pos + 1]
             lng == frame[pos + 2]
         IN  IF lng < 0 \/ lng > 255 THEN transactions
             ELSE IF pos + 2 + lng > Len(frame) - 4 THEN transactions
             ELSE ParseLoop(frame, pos + 2 + lng,
                            Append(transactions,
                                   [trans |-> trans, lng |-> lng,
                                    data |-> Slice(frame, pos + 2, pos + 2 + lng)]))

\* parseFrame without the test of the address
parseFrameAnyAddress(frame) ==
    IF Len(frame) < 8 THEN NullFrame
    ELSE IF frame[Len(frame) - 1] # ETX \/ frame[Len(frame)] # SF THEN NullFrame
    ELSE [address |-> frame[1],
          control |-> frame[2],
          transactions |-> ParseLoop(frame, 2, <<>>),
          crc1 |-> frame[Len(frame) - 3],
          crc2 |-> frame[Len(frame) - 2],
          etx |-> ETX,
          sf |-> SF]

parseFrame(frame) ==
    IF Len(frame) < 8 THEN NullFrame
    ELSE IF frame[Len(frame) - 1] # ETX \/ frame[Len(frame)] # SF THEN NullFrame
    ELSE IF frame[1] < MIN_PUMP_ADDRESS \/ frame[1] > MAX_PUMP_ADDRESS THEN NullFrame
    ELSE [address |-> frame[1],
          control |-> frame[2],
          transactions |-> ParseLoop(frame, 2, <<>>),
          crc1 |-> frame[Len(frame) - 3],
          crc2 |-> frame[Len(frame) - 2],
          etx |-> ETX,
          sf |-> SF]

(***************************************************************************)
(* decoder.ts: structural decode of DC transactions.                       *)
(***************************************************************************)
\* JavaScript numbers past the range of the model's integers: a whole number
\* is the sequence of its decimal digits, without leading zeros
RECURSIVE StripZeros(_)
StripZeros(digits) ==
    IF Len(digits) > 1 /\ Head(digits) = 0 THEN StripZeros(Tail(digits)) ELSE digits

RECURSIVE DigitsLess(_, _)
DigitsLess(a, b) ==
    \* a < b, for digit sequences without leading zeros
    IF Len(a) # Len(b) THEN Len(a) < Len(b)
    ELSE IF a = <<>> THEN FALSE
    ELSE IF Head(a) # Head(b) THEN Head(a) < Head(b)
    ELSE DigitsLess(Tail(a), Tail(b))

RECURSIVE DigitsInc(_)
DigitsInc(digits) ==
    IF digits = <<>> THEN <<1>>
    ELSE IF digits[Len(digits)] < 9
         THEN SubSeq(digits, 1, Len(digits) - 1) \o <<digits[Len(digits)] + 1>>
         ELSE DigitsInc(SubSeq(digits, 1, Len(digits) - 1)) \o <<0>>

RECURSIVE DigitsDec(_)
DigitsDec(digits) ==
    \* digits - 1, for digits > 0
    IF digits[Len(digits)] > 0
    THEN SubSeq(digits, 1, Len(digits) - 1) \o <<digits[Len(digits)] - 1>>
    ELSE DigitsDec(SubSeq(digits, 1, Len(digits) - 1)) \o <<9>>

\* 2^53, up to which every whole number is a JavaScript number
MaxExactDigits == <<9, 0, 0, 7, 1, 9, 9, 2, 5, 4, 7, 4, 0, 9, 9, 2>>

\* the JavaScript number nearest to a whole number below 2^54: itself up to
\* 2^53 and when even, otherwise the neighbour that is a multiple of 4
ToDouble(digits) ==
    LET Mod4(d) == (10 * (IF Len(d) > 1 THEN d[Len(d) - 1] ELSE 0) + d[Len(d)]) % 4
    IN  IF ~DigitsLess(MaxExactDigits, digits) THEN digits
        ELSE IF digits[Len(digits)] % 2 = 0 THEN digits
        ELSE IF Mod4(DigitsInc(digits)) = 0 THEN DigitsInc(digits)
        ELSE StripZeros(DigitsDec(digits))

\* decodeBCD on values past the range of the model's integers: the result as
\* digits, rounded to a JavaScript number at every step of the loop
RECURSIVE DecodeBCDWideLoop(_, _)
DecodeBCDWideLoop(bytes, result) ==
    IF bytes = <<>> THEN result
    ELSE LET high == (Head(bytes) \div 16) % 16
             low == Head(bytes) % 16
         IN  IF high > 9 \/ low > 9 THEN <<0>>
             ELSE DecodeBCDWideLoop(Tail(bytes),
                                    ToDouble(StripZeros(result \o <<high, low>>)))

decodeBCDWide(bytes) == DecodeBCDWideLoop(bytes, <<0>>)

RECURSIVE DecodeBCDLoop(_, _)
DecodeBCDLoop(bytes, result) ==
    IF bytes = <<>> THEN result
    ELSE LET high == (Head(bytes) \div 16) % 16
             low == Head(bytes) % 16
         IN  IF high > 9 \/ low > 9 THEN 0
             ELSE DecodeBCDLoop(Tail(bytes), result * 100 + high * 10 + low)

decodeBCD(bytes) == DecodeBCDLoop(bytes, 0)

\* decodePrice with the value read as hundredths
decodePriceHundredths(bytes) == IF Len(bytes) # 3 THEN 0 ELSE decodeBCD(bytes) * 10

\* thousandths: the code returns value / 1000
decodePrice(bytes) == IF Len(bytes) # 3 THEN 0 ELSE decodeBCD(bytes)

\* hundredths: the code returns value / 100
decodeVolumeOrAmount(bytes) == IF Len(bytes) # 4 THEN 0 ELSE decodeBCD(bytes)

decode5ByteBCD(bytes) == IF Len(bytes) # 5 THEN 0 ELSE decodeBCD(bytes)

\* value.toString().padStart(width, '0'), as the sequence of its digits
RECURSIVE DigitsOf(_)
DigitsOf(value) ==
    IF value < 10 THEN <<value>> ELSE Append(DigitsOf(value \div 10), value % 10)

RECURSIVE PadStart(_, _)
PadStart(digits, width) ==
    IF Len(digits) >= width THEN digits ELSE PadStart(<<0>> \o digits, width)

decodePumpIdentity(bytes) ==
    IF Len(bytes) # 5 THEN <<>> ELSE PadStart(DigitsOf(decodeBCD(bytes)), 10)

\* the price range test of the DC3 case, on thousandths
PriceMin == 500
PriceMax == 10000

\* PriceOutOfRange without the test of the lower limit
PriceOutOfRangeHighOnly(price) == price > PriceMax

PriceOutOfRange(price) == price < PriceMin \/ price > PriceMax

NullTx == [null |-> TRUE]

RECURSIVE DecodePrices(_)
DecodePrices(data) ==
    IF data = <<>> THEN <<>>
    ELSE <<decodePrice(Slice(data, 0, 3))>> \o DecodePrices(Slice(data, 3, Len(data)))

decodeDC1(data) ==
    IF Len(data) < 1 THEN NullTx ELSE [type |-> 1, status |-> data[1]]

decodeDC3(data) ==
    IF Len(data) < 4 THEN NullTx
    ELSE LET price == decodePrice(Slice(data, 0, 3))
         IN  IF PriceOutOfRange(price) THEN NullTx
             ELSE [type |-> 3, price |-> price,
                   nozzle |-> BitAnd(data[4], 15),
                   nozzleOut |-> BitAnd(data[4], 16) # 0]

decodeResponseTransaction(transaction) ==
    LET trans == transaction.trans
        data == transaction.data
    IN  CASE trans = 1 -> decodeDC1(data)
          [] trans = 2 ->
                IF Len(data) < 8 THEN NullTx
                ELSE [type |-> 2,
                      volume |-> decodeVolumeOrAmount(Slice(data, 0, 4)),
                      amount |-> decodeVolumeOrAmount(Slice(data, 4, 8))]
          [] trans = 3 -> decodeDC3(data)
          [] trans = 5 ->
                IF Len(data) < 1 THEN NullTx ELSE [type |-> 5, alarmCode |-> data[1]]
          [] trans = 7 ->
                IF Len(data) < 50 THEN NullTx
                ELSE [type |-> 7, dpVol |-> data[23], dpAmo |-> data[24],
                      dpUnp |-> data[25],
                      maxAmount |-> decodeVolumeOrAmount(Slice(data, 29, 33)),
                      grades |-> Slice(data, 35, 50)]
          [] trans = 9 ->
                IF Len(data) < 5 THEN NullTx
                ELSE [type |-> 9, identity |-> decodePumpIdentity(Slice(data, 0, 5))]
          [] trans = 14 ->
                IF Len(data) < 1 THEN NullTx ELSE [type |-> 14, nozzle |-> data[1]]
          [] trans = 15 ->
                IF Len(data) < 1 THEN NullTx ELSE [type |-> 15, nozzle |-> data[1]]
          [] trans = 101 ->
                IF Len(data) < 11 THEN NullTx
                ELSE [type |-> 101, counter |-> data[1],
                      totVal |-> decode5ByteBCD(Slice(data, 1, 6)),
                      totM1OrNoFill |-> decode5ByteBCD(Slice(data, 6, 11)),
                      totM2 |-> IF Len(data) >= 16
                                THEN decode5ByteBCD(Slice(data, 11, 16)) ELSE 0]
          [] trans = 102 ->
                IF Len(data) < 2 THEN NullTx
                ELSE [type |-> 102, mode |-> data[1], localAuthorise |-> data[2] # 0]
          [] trans = 103 ->
                IF Len(data) < 3 \/ Len(data) % 3 # 0 THEN NullTx
                ELSE [type |-> 103, prices |-> DecodePrices(data)]
          [] OTHER -> NullTx

(***************************************************************************)
(* frame-matcher.ts: pattern decode of 9-byte status frames.               *)
(***************************************************************************)
HeartbeatBytes == {80, 81, 32, 112, 250}

isStatusFrame(frame) ==
    /\ Len(frame) = 9
    /\ frame[1] >= 80 /\ frame[1] <= 111
    /\ frame[3] = 1 /\ frame[4] = 1
    /\ frame[Len(frame) - 1] = 3
    /\ frame[Len(frame)] = 250

MaxPatternStatus == 8

decodeStatusFrame(frame) ==
    IF ~isStatusFrame(frame) THEN NullTx
    ELSE IF frame[3] # 1 \/ frame[4] # 1 THEN NullTx
    ELSE IF frame[5] > MaxPatternStatus THEN NullTx
    ELSE [type |-> 1, status |-> frame[5]]

isHeartbeatFrame(frame) ==
    \/ /\ Len(frame) = 3
       /\ frame[1] = 80 /\ frame[3] = 250
       /\ \/ frame[2] = 32
          \/ frame[2] = 112
          \/ (frame[2] >= 193 /\ frame[2] <= 207)
    \/ Len(frame) < 6
    \/ \A i \in 1..(Len(frame) - 2) : frame[i] \in HeartbeatBytes

\* tryDecodeFrameByPattern with the status pattern tried on frames of any length
tryDecodeFrameByPatternAnyLength(frame) ==
    IF isHeartbeatFrame(frame) THEN <<>>
    ELSE IF frame[3] = 1 /\ frame[4] = 1 /\ frame[5] <= MaxPatternStatus
         THEN <<[type |-> 1, status |-> frame[5]]>>
         ELSE <<>>

tryDecodeFrameByPattern(frame) ==
    IF isHeartbeatFrame(frame) THEN <<>>
    ELSE IF Len(frame) = 9 /\ isStatusFrame(frame)
         THEN LET decoded == decodeStatusFrame(frame)
              IN  IF decoded # NullTx THEN <<decoded>> ELSE <<>>
         ELSE <<>>

(***************************************************************************)
(* encoder (second half of line-protocol.ts): BCD and CD transactions.     *)
(***************************************************************************)
\* encodeBCD: the first 2 * bytes digits of the zero-padded decimal string
\* encodeBCD from the digits of Math.floor(value).toString(); a missing
\* character reads as '0'
encodeBCDDigits(digits, bytes) ==
    LET str == PadStart(digits, bytes * 2)
    IN  [i \in 1..bytes |-> str[2 * i - 1] * 16 + str[2 * i]]

encodeBCD(value, bytes) == encodeBCDDigits(DigitsOf(value), bytes)

\* price in ten-thousandths: Math.round(price * 10000)
encodePrice(priceInt) == encodeBCD(priceInt, 3)

\* RoundPrice with Math.floor in the place of Math.round
RoundPriceFloor(q) == q \div 10

\* Math.round(price * 10000) for a price of q hundred-thousandths, q >= 0
RoundPrice(q) == (q + 5) \div 10

\* value in hundredths: Math.round(value * 100)
encodeVolumeOrAmount(valueInt) == encodeBCD(valueInt, 4)

RECURSIVE EncodePrices(_)
EncodePrices(prices) ==
    IF prices = <<>> THEN <<>>
    ELSE encodePrice(Head(prices)) \o EncodePrices(Tail(prices))

Zeros(n) == [i \in 1..n |-> 0]

Throws == [throws |-> TRUE]

CounterInvalid(counter) ==
    \/ counter < 1
    \/ (counter > 9 /\ counter < 17)
    \/ counter > 25

\* NozzlesInvalid with the upper limit off by one
NozzlesInvalidLoose(nozzles) == \E i \in 1..Len(nozzles) : nozzles[i] < 1 \/ nozzles[i] > 16

NozzlesInvalid(nozzles) == \E i \in 1..Len(nozzles) : nozzles[i] < 1 \/ nozzles[i] > 15

\* encodeCommandTransaction: data is [type, ...fields]; Throws when it throws
encodeCommandTransaction(data) ==
    CASE data.type = 1 -> createTransaction(1, <<data.command>>)
      [] data.type = 2 ->
            IF Len(data.nozzles) = 0 THEN Throws
            ELSE IF NozzlesInvalid(data.nozzles) THEN Throws
            ELSE createTransaction(2, data.nozzles)
      [] data.type = 3 -> createTransaction(3, encodeVolumeOrAmount(data.volume))
      [] data.type = 4 -> createTransaction(4, encodeVolumeOrAmount(data.amount))
      [] data.type = 5 ->
            IF Len(data.prices) = 0 THEN Throws
            ELSE createTransaction(5, EncodePrices(data.prices))
      [] data.type = 7 -> createTransaction(7, <<data.outputFunction, data.command>>)
      [] data.type = 9 ->
            createTransaction(9,
                Zeros(22)
                \o <<IF "dpVol" \in DOMAIN data THEN data.dpVol % 256 ELSE 0>>
                \o <<IF "dpAmo" \in DOMAIN data THEN data.dpAmo % 256 ELSE 0>>
                \o <<IF "dpUnp" \in DOMAIN data THEN data.dpUnp % 256 ELSE 0>>
                \o Zeros(5)
                \o (IF "maxAmount" \in DOMAIN data
                    THEN encodeVolumeOrAmount(data.maxAmount) ELSE Zeros(4))
                \o Zeros(17))
      [] data.type = 13 -> createTransaction(13, <<data.fillingType>>)
      [] data.type = 14 ->
            IF data.nozzle < 0 \/ data.nozzle > 15 THEN Throws
            ELSE createTransaction(14, <<data.nozzle>>)
      [] data.type = 15 ->
            IF data.nozzle < 0 \/ data.nozzle > 15 THEN Throws
            ELSE createTransaction(15, <<data.nozzle>>)
      [] data.type = 101 ->
            IF CounterInvalid(data.counter) THEN Throws
            ELSE createTransaction(101, <<data.counter>>)
      [] OTHER -> Throws

(***************************************************************************)
(* serial-handler.ts: the ingress pipeline.                                *)
(***************************************************************************)
\* AckFrames with the acknowledgment sent, as sendAcknowledgment would build it
AckFramesEnabled(address, shouldAck) ==
    IF shouldAck THEN <<buildFrame(address, 0, <<createTransaction(1, <<0>>)>>)>> ELSE <<>>

\* the acknowledgment of processFrame: both calls of sendAcknowledgment are
\* commented out, so shouldAck is computed and nothing is sent
AckFrames(address, shouldAck) == <<>>

\* the transaction loop leaving the frame at the first transaction the decoder
\* returns null for
RECURSIVE DecodeAllUntilUnknown(_)
DecodeAllUntilUnknown(transactions) ==
    IF transactions = <<>> THEN <<>>
    ELSE LET d == decodeResponseTransaction(Head(transactions))
         IN  IF d = NullTx THEN <<d>>
             ELSE <<d>> \o DecodeAllUntilUnknown(Tail(transactions))

RECURSIVE DecodeAll(_)
DecodeAll(transactions) ==
    IF transactions = <<>> THEN <<>>
    ELSE <<decodeResponseTransaction(Head(transactions))>> \o DecodeAll(Tail(transactions))

NoEvents == [messages |-> <<>>, unknown |-> <<>>, unrecognized |-> FALSE, acks |-> <<>>]

\* processFrame falling through to parseFrame after a pattern match
processFrameBoth(frame) ==
    LET address == frame[1]
        patternDecoded == tryDecodeFrameByPattern(frame)
        parsedFrame == parseFrame(frame)
        IsMsg(d) == d # NullTx
        structural == IF parsedFrame # NullFrame
                      THEN SelectSeq(DecodeAll(parsedFrame.transactions), IsMsg)
                      ELSE <<>>
    IN  IF address < 80 \/ address > 111 THEN NoEvents
        ELSE IF Len(frame) < 6 THEN NoEvents
        ELSE IF \A i \in 1..(Len(frame) - 2) : frame[i] \in HeartbeatBytes THEN NoEvents
        ELSE [messages |-> patternDecoded \o structural,
              unknown |-> <<>>,
              unrecognized |-> FALSE,
              acks |-> <<>>]

\* processFrame: the transactions it emits as 'message', the transactions it
\* emits as 'unknownTransaction', whether it logs 'Unrecognized frame', and
\* the frames it sends back
processFrame(frame) ==
    LET address == frame[1]
        patternDecoded == tryDecodeFrameByPattern(frame)
        parsedFrame == parseFrame(frame)
    IN  IF address < 80 \/ address > 111 THEN NoEvents
        ELSE IF Len(frame) < 6 THEN NoEvents
        ELSE IF \A i \in 1..(Len(frame) - 2) : frame[i] \in HeartbeatBytes THEN NoEvents
        ELSE IF Len(patternDecoded) > 0
             THEN [messages |-> patternDecoded,
                   unknown |-> <<>>,
                   unrecognized |-> FALSE,
                   acks |-> AckFrames(address,
                                \E i \in 1..Len(patternDecoded) : patternDecoded[i].type = 1)]
        ELSE IF parsedFrame # NullFrame /\ Len(parsedFrame.transactions) > 0
             THEN LET decoded == DecodeAll(parsedFrame.transactions)
                      IsMsg(d) == d # NullTx
                      msgs == SelectSeq(decoded, IsMsg)
                  IN  [messages |-> msgs,
                       unknown |-> [i \in 1..Cardinality({j \in 1..Len(decoded) : decoded[j] = NullTx})
                                     |-> parsedFrame.transactions[
                                            CHOOSE j \in 1..Len(decoded) :
                                                /\ decoded[j] = NullTx
                                                /\ Cardinality({k \in 1..j : decoded[k] = NullTx}) = i]],
                       unrecognized |-> FALSE,
                       acks |-> AckFrames(parsedFrame.address,
                                    \E i \in 1..Len(msgs) : msgs[i].type \in {1, 3})]
        ELSE [messages |-> <<>>, unknown |-> <<>>, unrecognized |-> TRUE, acks |-> <<>>]

(***************************************************************************)
(* commands.ts: POST /send.                                                *)
(*                                                                         *)
(* A request body is [command, pumpAddress] with an optional control.  A   *)
(* JavaScript value is [t |-> "num", v |-> n], [t |-> "str", v |-> chars]  *)
(* (a string as the sequence of its characters) or [t |-> "undef"].        *)
(***************************************************************************)
Num(n) == [t |-> "num", v |-> n]
Str(chars) == [t |-> "str", v |-> chars]
Undef == [t |-> "undef"]
NotANumber == [nan |-> TRUE, v |-> 0]
Number(n) == [nan |-> FALSE, v |-> n]

DigitValue(c) ==
    CASE c = "0" -> 0 [] c = "1" -> 1 [] c = "2" -> 2 [] c = "3" -> 3
      [] c = "4" -> 4 [] c = "5" -> 5 [] c = "6" -> 6 [] c = "7" -> 7
      [] c = "8" -> 8 [] c = "9" -> 9
      [] c \in {"a", "A"} -> 10 [] c \in {"b", "B"} -> 11
      [] c \in {"c", "C"} -> 12 [] c \in {"d", "D"} -> 13
      [] c \in {"e", "E"} -> 14 [] c \in {"f", "F"} -> 15
      [] OTHER -> 36

RECURSIVE StripLeadingSpace(_)
StripLeadingSpace(chars) ==
    IF chars # <<>> /\ Head(chars) = " " THEN StripLeadingSpace(Tail(chars)) ELSE chars

HasHexPrefix(chars) ==
    Len(chars) >= 2 /\ chars[1] = "0" /\ chars[2] \in {"x", "X"}

\* String.prototype.replace(/^0x/i, '')
StripHexPrefix(chars) == IF HasHexPrefix(chars) THEN Tail(Tail(chars)) ELSE chars

RECURSIVE ParseDigits(_, _, _, _)
ParseDigits(chars, radix, acc, seen) ==
    IF chars = <<>> \/ DigitValue(Head(chars)) >= radix
    THEN IF seen THEN Number(acc) ELSE NotANumber
    ELSE ParseDigits(Tail(chars), radix, acc * radix + DigitValue(Head(chars)), TRUE)

\* parseInt(string, radix) for radix 10 and 16
parseInt(chars, radix) ==
    LET s1 == StripLeadingSpace(chars)
        neg == s1 # <<>> /\ Head(s1) = "-"
        s2 == IF s1 # <<>> /\ Head(s1) \in {"-", "+"} THEN Tail(s1) ELSE s1
        s3 == IF radix = 16 THEN StripHexPrefix(s2) ELSE s2
        r == ParseDigits(s3, radix, 0, FALSE)
    IN  IF r.nan THEN r ELSE IF neg THEN Number(0 - r.v) ELSE r

\* the address parsing of POST /send and POST /config
parseAddress(pumpAddress) ==
    IF pumpAddress.t = "str"
    THEN LET address == parseInt(StripHexPrefix(pumpAddress.v), 16)
         IN  IF address.nan THEN parseInt(pumpAddress.v, 10) ELSE address
    ELSE Number(pumpAddress.v)

AddressRejected(address) == address.nan \/ address.v < 80 \/ address.v > 111

\* !pumpAddress
Falsy(x) ==
    \/ x.t = "undef"
    \/ (x.t = "num" /\ x.v = 0)
    \/ (x.t = "str" /\ x.v = <<>>)

CommandTypes ==
    [CD1 |-> 1, CD2 |-> 2, CD3 |-> 3, CD4 |-> 4, CD5 |-> 5, CD7 |-> 7, CD9 |-> 9,
     CD13 |-> 13, CD14 |-> 14, CD15 |-> 15, CD101 |-> 101]

\* parseCommandRequest: the type string becomes the transaction number, the
\* data fields are passed on; Throws for an unknown type
parseCommandRequest(command) ==
    IF command.type \in DOMAIN CommandTypes
    THEN [f \in (DOMAIN command.data) \cup {"type"} |->
            IF f = "type" THEN CommandTypes[command.type] ELSE command.data[f]]
    ELSE Throws

\* ControlByte with a control value of 0 taken as no control value (control || default)
ControlByteFalsy(req, transactionData) ==
    IF "control" \in DOMAIN req /\ req.control # 0 THEN req.control
    ELSE IF transactionData.type = 1
         THEN IF transactionData.command = 5 THEN 57
              ELSE IF transactionData.command = 6 THEN 60
              ELSE 0
         ELSE 0

\* the control byte of POST /send
ControlByte(req, transactionData) ==
    IF "control" \in DOMAIN req THEN req.control
    ELSE IF transactionData.type = 1
         THEN IF transactionData.command = 5 THEN 57
              ELSE IF transactionData.command = 6 THEN 60
              ELSE 0
         ELSE 0

\* POST /send up to the call of sendFrame: the response status and error when
\* it answers before sending, or the frame it hands to sendFrame
PostSend(req) ==
    IF Falsy(req.pumpAddress) THEN [http |-> 400, error |-> "missing"]
    ELSE LET address == parseAddress(req.pumpAddress)
             transactionData == parseCommandRequest(req.command)
             transaction == encodeCommandTransaction(transactionData)
         IN  IF AddressRejected(address) THEN [http |-> 400, error |-> "address"]
             ELSE IF transactionData = Throws THEN [http |-> 400, error |-> "command"]
             ELSE IF transaction = Throws THEN [http |-> 500, error |-> "encode"]
             ELSE IF buildFrameThrows(address.v) THEN [http |-> 500, error |-> "encode"]
             ELSE [http |-> 0, error |-> "",
                   frame |-> buildFrame(address.v,
                                        ControlByte(req, transactionData),
                                        <<transaction>>)]

(***************************************************************************)
(* The client's App: handlePumpMessage, the pump-state projection.         *)
(***************************************************************************)
Put(rec, field, value) ==
    [f \in (DOMAIN rec) \cup {field} |-> IF f = field THEN value ELSE rec[f]]

CountOf(recent, status) == Cardinality({i \in 1..Len(recent) : recent[i].status = status})

\* the first status, in order of first appearance, that reaches the highest count
MostCommon(recent, newStatus) ==
    IF recent = <<>> THEN newStatus
    ELSE LET best == CHOOSE i \in 1..Len(recent) :
                        /\ \A j \in 1..Len(recent) :
                              CountOf(recent, recent[j].status) <= CountOf(recent, recent[i].status)
                        /\ \A j \in 1..(i - 1) :
                              CountOf(recent, recent[j].status) < CountOf(recent, recent[i].status)
         IN  recent[best].status

MaxCount(recent) ==
    IF recent = <<>> THEN 0
    ELSE CHOOSE c \in 1..Len(recent) :
            /\ \E i \in 1..Len(recent) : CountOf(recent, recent[i].status) = c
            /\ \A i \in 1..Len(recent) : CountOf(recent, recent[i].status) <= c

HasStatus(recent, status) == \E i \in 1..Len(recent) : recent[i].status = status

\* PriorityRule with RESET as the only status shown at once
PriorityRuleResetOnly(recent) ==
    IF HasStatus(recent, 1) THEN 1 ELSE -1

\* the rules for RESET and AUTHORIZED: the status to show, -1 when neither applies
PriorityRule(recent) ==
    IF HasStatus(recent, 1) THEN 1
    ELSE IF HasStatus(recent, 2) THEN 2
    ELSE -1

\* IdleRule with status 0 preferred when both 0 and 5 are recent
IdleRulePreferZero(recent) ==
    IF HasStatus(recent, 5) /\ HasStatus(recent, 0) THEN 0
    ELSE IF HasStatus(recent, 5) /\ ~HasStatus(recent, 0) THEN 5
    ELSE -1

\* the rules for status 5: the status to show, -1 when neither applies
IdleRule(recent) ==
    IF HasStatus(recent, 5) /\ HasStatus(recent, 0) THEN 5
    ELSE IF HasStatus(recent, 5) /\ ~HasStatus(recent, 0) THEN 5
    ELSE -1

\* the DC1 case of handlePumpMessage
ProjectStatus(prev, newState, newStatus, t) ==
    LET hist0 == IF "statusHistory" \in DOMAIN newState THEN newState.statusHistory ELSE <<>>
        hist1 == Append(hist0, [status |-> newStatus, timestamp |-> t])
        hist == IF Len(hist1) > HistoryMax THEN Tail(hist1) ELSE hist1
        IsRecent(entry) == t - entry.timestamp < WindowMs
        recentStatuses == SelectSeq(hist, IsRecent)
        mostCommonStatus == MostCommon(recentStatuses, newStatus)
        maxCount == MaxCount(recentStatuses)
        withHist == Put(newState, "statusHistory", hist)
        Show(st) == Put(Put(withHist, "status", st), "lastStatusUpdateTime", t)
    IN  IF PriorityRule(recentStatuses) # -1 THEN Show(PriorityRule(recentStatuses))
        ELSE IF IdleRule(recentStatuses) # -1 THEN Show(IdleRule(recentStatuses))
        ELSE IF HasStatus(recentStatuses, 0) /\ ~HasStatus(recentStatuses, 5) /\ maxCount >= 3
             THEN Show(0)
        ELSE IF (prev = NoState \/ prev.status # mostCommonStatus) /\ maxCount >= 3
             THEN Show(mostCommonStatus)
        ELSE Put(withHist, "status", IF prev = NoState THEN newStatus ELSE prev.status)

\* the DC3 case: the price is stored only when it is in range
ProjectNozzle(newState, tx) ==
    LET withNozzle == Put(Put(newState, "nozzle", tx.nozzle), "nozzleOut", tx.nozzleOut)
    IN  IF tx.price # 0 /\ tx.price >= 500 /\ tx.price <= 10000
        THEN Put(withNozzle, "price", tx.price)
        ELSE withNozzle

\* the updater handlePumpMessage gives setPumpState, at client time t
handlePumpMessage(prev, data, t) ==
    LET newState == IF prev = NoState
                    THEN [address |-> data.address, status |-> 0,
                          lastUpdate |-> data.timestamp]
                    ELSE prev
        tx == data.transaction
    IN  CASE tx.type = 1 -> ProjectStatus(prev, newState, tx.status, t)
          [] tx.type = 2 -> Put(Put(newState, "volume", tx.volume), "amount", tx.amount)
          [] tx.type = 3 -> ProjectNozzle(newState, tx)
          [] tx.type = 9 -> Put(newState, "identity", tx.identity)
          [] OTHER -> newState

(***************************************************************************)
(* Inputs.                                                                 *)
(***************************************************************************)
DC1(status) == createTransaction(1, <<status>>)
DC3(b1, b2, b3, nozio) == createTransaction(3, <<b1, b2, b3, nozio>>)

\* valid frames, CRC included, as a pump would send them
StreamFrames ==
    << buildFrame(80, 57, <<DC1(5)>>),
       buildFrame(80, 61, <<DC1(0)>>),
       buildFrame(81, 49, <<DC1(2)>>),
       buildFrame(80, 52, <<DC1(5), DC3(0, 33, 128, 17)>>) >>

PumpFrames ==
    << buildFrame(80, 49, <<DC1(0)>>),
       buildFrame(80, 50, <<DC1(5)>>),
       buildFrame(80, 51, <<DC1(3)>>),
       buildFrame(80, 52, <<DC1(9)>>),
       buildFrame(80, 53, <<DC1(5), DC3(0, 33, 128, 17)>>),
       buildFrame(80, 54, <<DC3(0, 5, 0, 1)>>),
       buildFrame(81, 55, <<DC3(1, 0, 0, 2)>>),
       buildFrame(80, 56, <<DC3(0, 4, 153, 1)>>),
       buildFrame(80, 57, <<DC3(1, 0, 1, 1)>>),
       buildFrame(80, 58, <<DC3(0, 250, 0, 1)>>),
       buildFrame(80, 59, <<DC1(5), DC3(3, 4, 0, 33)>>),
       buildFrame(81, 60, <<DC1(2)>>) >>

\* the status frames of SpecFlap: NOT PROGRAMMED and FILLING
FlapFrames ==
    << buildFrame(80, 49, <<DC1(0)>>),
       buildFrame(80, 50, <<DC1(4)>>) >>

\* the items of SpecNoise: a run of line noise without a terminator, and the
\* two terminator bytes
NoiseItems ==
    << [i \in 1..NoiseLen |-> 0],
       <<ETX, SF>> >>

\* a frame with a wrapper block on the line between its fifth and sixth byte
WithWrapper(frame, wrapper) ==
    SubSeq(frame, 1, 5) \o wrapper \o SubSeq(frame, 6, Len(frame))

\* the items of SpecRepeat: a status frame, a status frame with a wrapper
\* block on the line between the 03 and the FA of its terminator, and a
\* status frame with the wrapper block 50 03 FA after its fifth byte
RepeatFrames ==
    << buildFrame(80, 49, <<DC1(0)>>),
       SubSeq(buildFrame(80, 50, <<DC1(5)>>), 1, 8) \o <<80, 32, 250>> \o <<SF>>,
       WithWrapper(buildFrame(80, 51, <<DC1(2)>>), <<80, 3, 250>>) >>

InboundFrames ==
    << buildFrame(80, 49, <<DC1(0)>>),
       buildFrame(80, 53, <<DC1(5), DC3(0, 33, 128, 17)>>) >>

\* what the line carries between frames: wrapper blocks, short frames and
\* frames of heartbeat bytes only
HeartbeatItems ==
    << <<80, 32, 250>>,
       <<81, 112, 250>>,
       <<80, 193, 250>>,
       <<80, 49, 3, 250>>,
       <<80, 49, 1, 3, 250>>,
       <<80, 32, 112, 32, 3, 250>>,
       <<80, 80, 81, 32, 112, 250, 32, 3, 250>> >>

\* the frames of SpecHeartbeat: two status frames, as sent and with a wrapper
\* block inside
HeartbeatFrames ==
    << buildFrame(80, 49, <<DC1(0)>>),
       buildFrame(81, 50, <<DC1(2)>>),
       WithWrapper(buildFrame(80, 49, <<DC1(0)>>), <<80, 32, 250>>),
       WithWrapper(buildFrame(81, 50, <<DC1(2)>>), <<81, 112, 250>>) >>

\* the status frames of SpecStatus, and AUTHORIZED with a nozzle transaction
StatusFrames ==
    << buildFrame(80, 49, <<DC1(0)>>),
       buildFrame(80, 50, <<DC1(5)>>),
       buildFrame(80, 51, <<DC1(1)>>),
       buildFrame(80, 54, <<DC1(2), DC3(0, 33, 128, 17)>>) >>

\* the frames of SpecIngress: a recorded status-5 frame with a nozzle
\* transaction, the same with a price out of range, a status frame, and four
\* malformed frames (wrong CRC, a length past the end, a foreign address, an
\* empty DC1)
IngressFrames ==
    << <<80, 52, 1, 1, 5, 3, 4, 0, 33, 128, 17, 156, 130, 3, 250>>,
       buildFrame(80, 55, <<DC1(5), DC3(3, 4, 0, 33)>>),
       buildFrame(81, 49, <<DC1(0)>>),
       <<80, 49, 1, 1, 7, 0, 81, 3, 250>>,
       <<80, 49, 1, 200, 5, 0, 0, 3, 250>>,
       <<255, 0, 3, 250>>,
       <<80, 49, 1, 0, 7, 0, 0, 0, 3, 250>> >>

\* the frames of SpecUnknown: a transaction of unsupported code 4 between a
\* status and a nozzle transaction, a nozzle transaction with a price out of
\* range after a status, and an unsupported transaction before a status
UnknownFrames ==
    << buildFrame(80, 57, <<DC1(2), createTransaction(4, <<0>>), DC3(0, 33, 128, 17)>>),
       buildFrame(80, 55, <<DC1(5), DC3(3, 4, 0, 33)>>),
       buildFrame(81, 58, <<createTransaction(4, <<0>>), DC1(1)>>) >>

CD1(command) == [type |-> "CD1", data |-> [command |-> command]]
CD2(nozzles) == [type |-> "CD2", data |-> [nozzles |-> nozzles]]
CD5(prices) == [type |-> "CD5", data |-> [prices |-> prices]]
CD13(fillingType) == [type |-> "CD13", data |-> [fillingType |-> fillingType]]
CD14(nozzle) == [type |-> "CD14", data |-> [nozzle |-> nozzle]]
CD15(nozzle) == [type |-> "CD15", data |-> [nozzle |-> nozzle]]
CD101(counter) == [type |-> "CD101", data |-> [counter |-> counter]]

Request(command, pumpAddress) == [command |-> command, pumpAddress |-> pumpAddress]
RequestCtrl(command, pumpAddress, control) ==
    [command |-> command, pumpAddress |-> pumpAddress, control |-> control]

AddressInputs ==
    << Num(80), Num(111), Num(79), Num(112), Num(0), Undef,
       Str(<<"8", "0">>), Str(<<"1", "1", "1">>), Str(<<"1", "0", "0">>),
       Str(<<"0", "x", "5", "0">>), Str(<<"5", "0">>), Str(<<"6", "F">>),
       Str(<<"0", "X", "6", "f">>), Str(<<"4", "F">>), Str(<<"7", "0">>),
       Str(<<"z", "z">>), Str(<<>>), Str(<<"7", "9">>), Str(<<"1", "1", "2">>) >>

CommandInputs ==
    << CD1(0), CD1(5), CD1(6), CD1(8), CD1(15), CD1(1), CD1(7), CD1(255),
       CD2(<<>>), CD2(<<1>>), CD2(<<15>>), CD2(<<1, 2>>), CD2(<<0>>), CD2(<<16>>),
       CD2(<<1, 16>>),
       [type |-> "CD3", data |-> [volume |-> 10050]],
       [type |-> "CD4", data |-> [amount |-> 5000]],
       CD5(<<>>), CD5(<<21800>>), CD5(<<21800, 15000>>),
       [type |-> "CD7", data |-> [outputFunction |-> 1, command |-> 1]],
       [type |-> "CD9", data |-> [dpVol |-> 2, maxAmount |-> 999900]],
       CD13(0), CD13(1), CD13(2), CD13(255),
       CD14(0), CD14(15), CD14(16), CD14(-1),
       CD15(0), CD15(15), CD15(16), CD15(-1),
       CD101(0), CD101(1), CD101(9), CD101(10), CD101(16), CD101(17), CD101(25),
       CD101(26),
       [type |-> "CD8", data |-> [counter |-> 1]],
       [type |-> "XX", data |-> [command |-> 0]] >>

ControlInputs == <<0, 55, 57, 60, 255>>

ControlCommands == <<CD1(0), CD1(5), CD1(6), CD2(<<1>>)>>

\* the requests of SpecApi: every address form with one command, every
\* command with one address, and a few commands with every control value
ApiRequests ==
    [i \in 1..Len(AddressInputs) |-> Request(CD1(5), AddressInputs[i])]
    \o [i \in 1..Len(CommandInputs) |-> Request(CommandInputs[i], Num(80))]
    \o [i \in 1..(Len(ControlInputs) * Len(ControlCommands)) |->
            RequestCtrl(ControlCommands[((i - 1) % Len(ControlCommands)) + 1],
                        Str(<<"5", "1">>),
                        ControlInputs[((i - 1) \div Len(ControlCommands)) + 1])]

\* the commands of CommandInputs that encodeCommandTransaction accepts
Encodable(command) ==
    /\ parseCommandRequest(command) # Throws
    /\ encodeCommandTransaction(parseCommandRequest(command)) # Throws

EncodableCommands == SelectSeq(CommandInputs, Encodable)

\* control bytes for frames built on their own, the values of ETX and SF included
ProbeControls == {0, 3, 57, 250, 255}

\* whole numbers to encode as BCD, as digits
BcdSamples ==
    { <<0>>, <<1>>, <<9>>, <<1, 0>>, <<9, 9>>, <<1, 0, 0>>, <<2, 1, 8, 0, 0>>,
      <<1, 2, 3, 4, 5, 6, 7>>, <<9, 8, 7, 6, 5, 4, 3, 2, 1, 0>>,
      MaxExactDigits, DigitsInc(MaxExactDigits) }

\* the numbers of BcdSamples that fit w bytes, and the two largest that do
BcdInputs(w) ==
    {d \in BcdSamples : Len(d) <= 2 * w}
    \cup {[i \in 1..(2 * w) |-> 9], [i \in 1..(2 * w) |-> IF i = 2 * w THEN 8 ELSE 9]}

\* the requests of SpecCrc: control values given and left out, in and past the
\* range of a byte, with payloads of one byte, of several and past a byte
CrcRequests ==
    << Request(CD1(5), Num(80)),
       RequestCtrl(CD1(6), Num(81), 0),
       RequestCtrl(CD1(0), Num(111), 255),
       RequestCtrl(CD1(5), Num(80), 300),
       Request(CD1(300), Num(80)),
       Request(CD2(<<1, 2>>), Num(95)),
       Request(EncodableCommands[Len(EncodableCommands)], Num(80)) >>

\* the requests of Spec: three that are sent and one that fails to encode
GatewayRequests ==
    << Request(CD1(5), Str(<<"5", "0">>)),
       Request(CD1(6), Num(80)),
       RequestCtrl(CD1(0), Num(81), 0),
       Request(CD2(<<>>), Num(80)) >>

(***************************************************************************)
(* Actions.                                                                *)
(***************************************************************************)
Init ==
    /\ wire = <<>>
    /\ fed = <<>>
    /\ byteBuffer = <<>>
    /\ extracted = <<>>
    /\ wsQueue = <<>>
    /\ emitted = <<>>
    /\ pumpState = NoState
    /\ now = 0
    /\ isConnected = FALSE
    /\ portWrites = <<>>
    /\ calls = <<>>
    /\ serverLog = <<>>
    /\ delivered = <<>>
    /\ probe = [kind |-> "none"]
    /\ port = [ref |-> 0, config |-> 1, devices |-> <<>>, closes |-> <<>>,
               closedWith |-> <<>>]

\* the SerialPort objects that are open and have the 'data' handler attached
Listening == {k \in 1..Len(port.devices) :
                port.devices[k].state = "open" /\ port.devices[k].handlers > 0}

\* connect() with no other call in progress: a SerialPort is created with the
\* configuration, the port opens, the handlers are attached
Connect ==
    /\ ~isConnected
    /\ Len(port.devices) < MaxDevices
    /\ \A k \in 1..Len(port.devices) : port.devices[k].state = "closed"
    /\ port.closes = <<>>
    /\ isConnected' = TRUE
    /\ port' = [port EXCEPT !.devices = Append(@, [config |-> port.config, state |-> "open",
                                                   handlers |-> 1]),
                            !.ref = Len(port.devices) + 1]
    /\ UNCHANGED <<wire, fed, byteBuffer, extracted, wsQueue, emitted, pumpState, now,
                   portWrites, calls, serverLog, delivered, probe>>

\* the 'Serial error' and 'Failed to connect' entries of the server's log
ErrorLogs == SelectSeq(serverLog, LAMBDA e : e.kind \in {"serialError", "connectFailed"})

\* connect(): port.open calls back with an error, connect() rejects and the
\* server logs 'Failed to connect to serial port'
ConnectFail ==
    /\ ~isConnected
    /\ Len(ErrorLogs) < MaxErrors
    /\ serverLog' = Append(serverLog, [kind |-> "connectFailed"])
    /\ UNCHANGED <<wire, fed, byteBuffer, extracted, wsQueue, emitted, pumpState, now,
                   isConnected, portWrites, calls, delivered, probe, port>>

\* the port's 'error' event: the handler emits 'error', the server logs
\* 'Serial error' and broadcasts the connection status false with the message
PortError ==
    /\ isConnected
    /\ Len(ErrorLogs) < MaxErrors
    /\ serverLog' = Append(serverLog, [kind |-> "serialError", connected |-> FALSE])
    /\ UNCHANGED <<wire, fed, byteBuffer, extracted, wsQueue, emitted, pumpState, now,
                   isConnected, portWrites, calls, delivered, probe, port>>

\* PortClose with the 'close' handler clearing byteBuffer as disconnect() does
PortCloseFlush ==
    /\ \E k \in 1..Len(port.devices) :
          /\ port.devices[k].state = "open"
          /\ port' = [port EXCEPT !.devices[k].state = "closed",
                                  !.closedWith = byteBuffer]
          /\ isConnected' = IF port.devices[k].handlers > 0 THEN FALSE ELSE isConnected
    /\ byteBuffer' = <<>>
    /\ UNCHANGED <<wire, fed, extracted, wsQueue, emitted, pumpState, now,
                   portWrites, calls, serverLog, delivered, probe>>

\* an open SerialPort closes by itself and emits 'close': the handler, where
\* attached, clears isConnected and emits 'disconnected'
PortClose ==
    /\ \E k \in 1..Len(port.devices) :
          /\ port.devices[k].state = "open"
          /\ port' = [port EXCEPT !.devices[k].state = "closed",
                                  !.closedWith = byteBuffer]
          /\ isConnected' = IF port.devices[k].handlers > 0 THEN FALSE ELSE isConnected
    /\ UNCHANGED <<wire, fed, byteBuffer, extracted, wsQueue, emitted, pumpState, now,
                   portWrites, calls, serverLog, delivered, probe>>

\* connect() up to port.open, on the handler state p: nothing when connected
\* with a port, else a new SerialPort of the configuration replaces this.port
ConnectStart(p, connected) ==
    IF connected /\ p.ref # 0 THEN p
    ELSE [p EXCEPT !.devices = Append(@, [config |-> p.config, state |-> "opening",
                                          handlers |-> 0]),
                   !.ref = Len(p.devices) + 1]

\* disconnect() up to port.close, on the handler state p, followed when it
\* resolves by updateConfig(then) and connect() if then is a configuration
\* (POST /config) and by nothing if then is 0: it resolves at once without a
\* port or when not connected, else it calls close on this.port, which calls
\* back with an error when the port is not open
DisconnectStart(p, connected, then) ==
    IF p.ref = 0 \/ ~connected
    THEN IF then = 0 THEN p ELSE ConnectStart([p EXCEPT !.config = then], connected)
    ELSE [p EXCEPT !.closes = Append(@, [dev |-> p.ref, then |-> then,
                                         err |-> p.devices[p.ref].state # "open"]),
                   !.devices[p.ref].state =
                       IF @ = "open" THEN "closing" ELSE @]

\* a call of connect()
ConnectCall ==
    /\ Len(port.devices) < MaxDevices
    /\ port' = ConnectStart(port, isConnected)
    /\ UNCHANGED <<wire, fed, byteBuffer, extracted, wsQueue, emitted, pumpState, now,
                   isConnected, portWrites, calls, serverLog, delivered, probe>>

\* the open callback of SerialPort k without error, which a path that another
\* SerialPort holds open never gives: isConnected is set and the handlers are
\* attached to this.port, which throws when this.port is null
OpenDone ==
    /\ \E k \in 1..Len(port.devices) :
          /\ port.devices[k].state = "opening"
          /\ \A j \in 1..Len(port.devices) :
                port.devices[j].state \in {"open", "closing"}
                    => port.devices[j].config # port.devices[k].config
          /\ port' = IF port.ref = 0
                     THEN [port EXCEPT !.devices[k].state = "open"]
                     ELSE [port EXCEPT !.devices[k].state = "open",
                                       !.devices[port.ref].handlers = @ + 1]
    /\ isConnected' = TRUE
    /\ UNCHANGED <<wire, fed, byteBuffer, extracted, wsQueue, emitted, pumpState, now,
                   portWrites, calls, serverLog, delivered, probe>>

\* the open callback of SerialPort k with an error: connect() rejects
OpenFail ==
    /\ \E k \in 1..Len(port.devices) :
          /\ port.devices[k].state = "opening"
          /\ port' = [port EXCEPT !.devices[k].state = "closed"]
    /\ UNCHANGED <<wire, fed, byteBuffer, extracted, wsQueue, emitted, pumpState, now,
                   isConnected, portWrites, calls, serverLog, delivered, probe>>

\* a call of disconnect()
DisconnectCall ==
    /\ Len(port.closes) < MaxDevices
    /\ port' = DisconnectStart(port, isConnected, 0)
    /\ UNCHANGED <<wire, fed, byteBuffer, extracted, wsQueue, emitted, pumpState, now,
                   isConnected, portWrites, calls, serverLog, delivered, probe>>

\* POST /config with a valid body naming configuration c: disconnect() when
\* getConnectionStatus() is true, then updateConfig and connect()
ConfigCall ==
    /\ Len(port.devices) < MaxDevices
    /\ Len(port.closes) < MaxDevices
    /\ \E c \in 1..2 :
          port' = IF isConnected THEN DisconnectStart(port, isConnected, c)
                  ELSE ConnectStart([port EXCEPT !.config = c], isConnected)
    /\ UNCHANGED <<wire, fed, byteBuffer, extracted, wsQueue, emitted, pumpState, now,
                   isConnected, portWrites, calls, serverLog, delivered, probe>>

\* the close callback of disconnect(): with an error it emits 'error', without
\* one the port has closed and has emitted 'close'; then isConnected, this.port
\* and byteBuffer are cleared, disconnect() resolves and POST /config goes on
CloseDone ==
    /\ \E i \in 1..Len(port.closes) :
          LET c == port.closes[i]
              closed == [port EXCEPT
                            !.closes = SubSeq(@, 1, i - 1) \o SubSeq(@, i + 1, Len(@)),
                            !.devices[c.dev].state = IF c.err THEN @ ELSE "closed",
                            !.ref = 0]
          IN  /\ c.err \/ port.devices[c.dev].state = "closing"
              /\ port' = IF c.then = 0 THEN closed
                         ELSE ConnectStart([closed EXCEPT !.config = c.then], FALSE)
              /\ serverLog' = IF c.err
                              THEN Append(serverLog, [kind |-> "serialError",
                                                      connected |-> FALSE])
                              ELSE serverLog
    /\ isConnected' = FALSE
    /\ byteBuffer' = <<>>
    /\ UNCHANGED <<wire, fed, extracted, wsQueue, emitted, pumpState, now,
                   portWrites, calls, delivered, probe>>

\* the pump puts a frame on the line
PumpSend(frame, max) ==
    /\ isConnected
    /\ Len(fed) < max
    /\ fed' = Append(fed, frame)
    /\ wire' = wire \o frame
    /\ UNCHANGED <<byteBuffer, extracted, wsQueue, emitted, pumpState, now,
                   isConnected, portWrites, calls, serverLog, delivered, probe, port>>

MessagesOf(frame, t) ==
    LET ev == processFrame(frame)
    IN  [i \in 1..Len(ev.messages) |->
            [address |-> frame[1], timestamp |-> t,
             transaction |-> ev.messages[i], rawFrame |-> frame]]

LogsOf(frame) ==
    LET ev == processFrame(frame)
    IN  [i \in 1..Len(ev.unknown) |->
            [kind |-> "unknownTransaction", address |-> frame[1],
             transaction |-> ev.unknown[i], rawFrame |-> frame]]
        \o (IF ev.unrecognized
            THEN <<[kind |-> "unrecognized", address |-> frame[1], rawFrame |-> frame]>>
            ELSE <<>>)

\* the loop of handleData over the extracted frames: what processFrame emits,
\* logs and sends for each, in order
RECURSIVE ProcessFrames(_, _)
ProcessFrames(frames, t) ==
    IF frames = <<>> THEN [messages |-> <<>>, logs |-> <<>>, acks |-> <<>>]
    ELSE LET frame == Head(frames)
             rest == ProcessFrames(Tail(frames), t)
         IN  [messages |-> MessagesOf(frame, t) \o rest.messages,
              logs |-> LogsOf(frame) \o rest.logs,
              acks |-> processFrame(frame).acks \o rest.acks]

\* SerialHandler.handleData on one chunk of bytes, run once for each of the n
\* 'data' handlers attached to the port
RECURSIVE HandleTimes(_, _, _, _)
HandleTimes(acc, data, t, n) ==
    IF n = 0 THEN acc
    ELSE LET buffer == acc.byteBuffer \o data
             frames == extractFrames(buffer)
             done == ProcessFrames(frames, t)
         IN  HandleTimes([byteBuffer |-> cleanupBuffer(buffer),
                          frames |-> acc.frames \o frames,
                          messages |-> acc.messages \o done.messages,
                          logs |-> acc.logs \o done.logs,
                          acks |-> acc.acks \o done.acks], data, t, n - 1)

\* the 'data' event of a port with n handlers attached
HandleData(data, n) ==
    LET done == HandleTimes([byteBuffer |-> byteBuffer, frames |-> <<>>, messages |-> <<>>,
                             logs |-> <<>>, acks |-> <<>>], data, now, n)
    IN  /\ byteBuffer' = done.byteBuffer
        /\ extracted' = extracted \o done.frames
        /\ wsQueue' = wsQueue \o done.messages
        /\ emitted' = emitted \o done.messages
        /\ serverLog' = serverLog \o done.logs
        /\ portWrites' = portWrites \o done.acks

\* the 'data' event of a listening port with the next n bytes of the line
ReadChunk ==
    /\ \E k \in Listening, n \in 1..Len(wire) :
          /\ HandleData(SubSeq(wire, 1, n), port.devices[k].handlers)
          /\ wire' = SubSeq(wire, n + 1, Len(wire))
    /\ UNCHANGED <<fed, pumpState, now, isConnected, calls, delivered, probe, port>>

\* the 'data' event of a listening port with every byte the line holds
ReadAll ==
    /\ wire # <<>>
    /\ \E k \in Listening : HandleData(wire, port.devices[k].handlers)
    /\ wire' = <<>>
    /\ UNCHANGED <<fed, pumpState, now, isConnected, calls, delivered, probe, port>>

\* the client handles the next 'pumpMessage'
Deliver ==
    /\ wsQueue # <<>>
    /\ pumpState' = handlePumpMessage(pumpState, Head(wsQueue), now)
    /\ wsQueue' = Tail(wsQueue)
    /\ delivered' = Append(delivered, [transaction |-> Head(wsQueue).transaction, t |-> now])
    /\ UNCHANGED <<wire, fed, byteBuffer, extracted, emitted, now, isConnected,
                   portWrites, calls, serverLog, probe, port>>

Tick ==
    /\ now < MaxTicks * TickMs
    /\ now' = now + TickMs
    /\ UNCHANGED <<wire, fed, byteBuffer, extracted, wsQueue, emitted, pumpState,
                   isConnected, portWrites, calls, serverLog, delivered, probe, port>>

Active == {"writing", "draining", "quiet"}

\* PortWrite with the new buffer ahead of the buffers already handed over
PortWriteFirst(writes, frame) == <<frame>> \o writes

\* Buffer.from(data): every element is stored modulo 256
BufferFrom(data) == [i \in 1..Len(data) |-> data[i] % 256]

\* port.write(buffer, callback): the buffer joins the port's write queue
PortWrite(writes, frame) == Append(writes, frame)

\* the wsHandler parameter of createCommandsRouter: the server passes none
WsHandlerGiven == FALSE

\* the 'sent' log events POST /send broadcasts for a frame before sendFrame
BroadcastSent(frame) ==
    IF WsHandlerGiven THEN <<[type |-> "sent", frameHex |-> frame]>> ELSE <<>>

\* SendCommand with sendData testing this.port alone
SendCommandPortOnly(req) ==
    LET out == PostSend(req)
        Answered(http, error, frame) ==
            [req |-> req, phase |-> "answered", http |-> http, error |-> error,
             frame |-> frame, written |-> FALSE, connected |-> isConnected, dev |-> 0,
             sentLog |-> IF frame = <<>> THEN <<>> ELSE BroadcastSent(frame)]
    IN  /\ IF out.http # 0
           THEN /\ calls' = Append(calls, Answered(out.http, out.error, <<>>))
                /\ UNCHANGED portWrites
           ELSE IF port.ref = 0
           THEN /\ calls' = Append(calls, Answered(500, "not connected", out.frame))
                /\ UNCHANGED portWrites
           ELSE /\ calls' = Append(calls, [req |-> req, phase |-> "writing", http |-> 0,
                                           error |-> "", frame |-> out.frame,
                                           written |-> TRUE, connected |-> TRUE,
                                           dev |-> port.ref,
                                           sentLog |-> BroadcastSent(out.frame)])
                /\ portWrites' = PortWrite(portWrites, BufferFrom(out.frame))
        /\ UNCHANGED <<wire, fed, byteBuffer, extracted, wsQueue, emitted, pumpState,
                       now, isConnected, serverLog, delivered, probe, port>>

\* POST /send, from the request to the first await: it answers 400 or 500, or
\* sendData calls port.write and the handler waits for the write callback
SendCommand(req) ==
    LET out == PostSend(req)
        Answered(http, error, frame) ==
            [req |-> req, phase |-> "answered", http |-> http, error |-> error,
             frame |-> frame, written |-> FALSE, connected |-> isConnected, dev |-> 0,
             sentLog |-> IF frame = <<>> THEN <<>> ELSE BroadcastSent(frame)]
    IN  /\ IF out.http # 0
           THEN /\ calls' = Append(calls, Answered(out.http, out.error, <<>>))
                /\ UNCHANGED portWrites
           ELSE IF port.ref = 0 \/ ~isConnected
           THEN /\ calls' = Append(calls, Answered(500, "not connected", out.frame))
                /\ UNCHANGED portWrites
           ELSE /\ calls' = Append(calls, [req |-> req, phase |-> "writing", http |-> 0,
                                           error |-> "", frame |-> out.frame,
                                           written |-> TRUE, connected |-> TRUE,
                                           dev |-> port.ref,
                                           sentLog |-> BroadcastSent(out.frame)])
                /\ portWrites' = PortWrite(portWrites, BufferFrom(out.frame))
        /\ UNCHANGED <<wire, fed, byteBuffer, extracted, wsQueue, emitted, pumpState,
                       now, isConnected, serverLog, delivered, probe, port>>

SetPhase(i, phase, http) ==
    /\ calls' = [calls EXCEPT ![i].phase = phase, ![i].http = http]
    /\ UNCHANGED <<wire, fed, byteBuffer, extracted, wsQueue, emitted, pumpState,
                   now, isConnected, portWrites, serverLog, delivered, probe, port>>

\* the write callback without error: sendData calls this.port.drain, which
\* throws inside the callback when disconnect() has set this.port to null, and
\* sendData then never settles
WriteDone ==
    \E i \in 1..Len(calls) :
        /\ calls[i].phase = "writing"
        /\ \A j \in 1..(i - 1) : calls[j].phase # "writing"
        /\ SetPhase(i, IF port.ref = 0 THEN "thrown" ELSE "draining", 0)

\* the write callback with an error: sendData rejects, the route answers 500
WriteFail ==
    \E i \in 1..Len(calls) :
        /\ calls[i].phase = "writing"
        /\ \A j \in 1..(i - 1) : calls[j].phase # "writing"
        /\ calls' = [calls EXCEPT ![i].phase = "answered", ![i].http = 500,
                                  ![i].error = "write"]
        /\ UNCHANGED <<wire, fed, byteBuffer, extracted, wsQueue, emitted, pumpState,
                       now, isConnected, portWrites, serverLog, delivered, probe, port>>

\* the drain callback: sendFrame starts its 50 ms timer
DrainDone ==
    \E i \in 1..Len(calls) :
        /\ calls[i].phase = "draining"
        /\ SetPhase(i, "quiet", 0)

\* the timer fires: 'frameSent' is emitted and the route answers 200
QuietDone ==
    \E i \in 1..Len(calls) :
        /\ calls[i].phase = "quiet"
        /\ SetPhase(i, "answered", 200)

\* one call per behaviour: buildFrame on an encoded command, then parseFrame on
\* the result
ProbeFrame ==
    /\ probe.kind = "none"
    /\ \E i \in 1..Len(EncodableCommands), address \in MIN_PUMP_ADDRESS..MAX_PUMP_ADDRESS,
          control \in ProbeControls :
          LET transaction == encodeCommandTransaction(parseCommandRequest(EncodableCommands[i]))
              frame == buildFrame(address, control, <<transaction>>)
          IN  probe' = [kind |-> "frame", address |-> address, control |-> control,
                        transaction |-> transaction, frame |-> frame,
                        parsed |-> parseFrame(frame)]
    /\ UNCHANGED <<wire, fed, byteBuffer, extracted, wsQueue, emitted, pumpState, now,
                   isConnected, portWrites, calls, serverLog, delivered, port>>

\* one call per behaviour: encodeBCD on a whole number, then decodeBCD on the
\* result
ProbeBcd ==
    /\ probe.kind = "none"
    /\ \E w \in 1..8 : \E n \in BcdInputs(w) :
          LET encoded == encodeBCDDigits(ToDouble(n), w)
          IN  probe' = [kind |-> "bcd", n |-> n, w |-> w, encoded |-> encoded,
                        decoded |-> decodeBCDWide(encoded)]
    /\ UNCHANGED <<wire, fed, byteBuffer, extracted, wsQueue, emitted, pumpState, now,
                   isConnected, portWrites, calls, serverLog, delivered, port>>

\* the prices of ProbePrice, in hundred-thousandths: whole ten-thousandths
\* (0, 0.5, 2.18, 9.9999, 99.9999), prices with a fifth decimal (2.18004,
\* 2.18007, 99.99994) and a price whose scaled value has 7 digits (100)
PriceSamples ==
    {0, 50000, 218000, 999990, 9999990, 218004, 218007, 9999994, 10000000}

\* one call per behaviour: encodePrice on a price, then decodePrice on the
\* bytes
ProbePrice ==
    /\ probe.kind = "none"
    /\ \E q \in PriceSamples :
          LET encoded == encodePrice(RoundPrice(q))
          IN  probe' = [kind |-> "price", q |-> q, encoded |-> encoded,
                        decoded |-> decodePrice(encoded)]
    /\ UNCHANGED <<wire, fed, byteBuffer, extracted, wsQueue, emitted, pumpState, now,
                   isConnected, portWrites, calls, serverLog, delivered, port>>

\* the frames of ProbeParse: the frames of the other specifications, and
\* frames that are too short, lack the terminator, carry a foreign address,
\* hold a length that spills past the CRC (in the first and in the second
\* transaction), leave one byte before the CRC, and hold empty transactions
ParseInputs ==
    {PumpFrames[i] : i \in 1..Len(PumpFrames)}
    \cup {IngressFrames[i] : i \in 1..Len(IngressFrames)}
    \cup {UnknownFrames[i] : i \in 1..Len(UnknownFrames)}
    \cup {StreamFrames[i] : i \in 1..Len(StreamFrames)}
    \cup { <<80, 49, 0, 0, 0, ETX, SF>>,
           <<80, 49, 1, 1, 5, 0, 0, ETX, 0>>,
           <<80, 49, 1, 1, 5, 0, 0, 0, SF>>,
           <<79, 49, 1, 1, 5, 0, 0, ETX, SF>>,
           <<112, 49, 1, 1, 5, 0, 0, ETX, SF>>,
           <<111, 49, 1, 1, 5, 0, 0, ETX, SF>>,
           <<80, 49, 1, 2, 5, 0, 0, ETX, SF>>,
           <<80, 49, 1, 1, 5, 3, 9, 0, 33, 0, 0, ETX, SF>>,
           <<80, 49, 1, 1, 5, 3, 0, 0, ETX, SF>>,
           <<80, 49, 1, 0, 0, 0, ETX, SF>>,
           <<80, 49, 1, 0, 2, 0, 3, 0, 0, 0, ETX, SF>>,
           <<80, 49, 1, 255, 0, 0, ETX, SF>>,
           <<80, 49, 0, 0, ETX, SF>> }

\* one call per behaviour: parseFrame on a frame
ProbeParse ==
    /\ probe.kind = "none"
    /\ \E frame \in ParseInputs :
          probe' = [kind |-> "parse", frame |-> frame, parsed |-> parseFrame(frame)]
    /\ UNCHANGED <<wire, fed, byteBuffer, extracted, wsQueue, emitted, pumpState, now,
                   isConnected, portWrites, calls, serverLog, delivered, port>>

SendGateway ==
    /\ Len(calls) < MaxCalls
    /\ \E i \in 1..Len(GatewayRequests) : SendCommand(GatewayRequests[i])

SendApi ==
    /\ Len(calls) < MaxApiCalls
    /\ \E i \in 1..Len(ApiRequests) : SendCommand(ApiRequests[i])

SendCrc ==
    /\ Len(calls) < MaxCalls
    /\ \E i \in 1..Len(CrcRequests) : SendCommand(CrcRequests[i])

PumpSendInbound == \E i \in 1..Len(InboundFrames) : PumpSend(InboundFrames[i], MaxInbound)
PumpSendStream == \E i \in 1..Len(StreamFrames) : PumpSend(StreamFrames[i], MaxFed)
PumpSendPump == \E i \in 1..Len(PumpFrames) : PumpSend(PumpFrames[i], MaxFed)
\* the pump sends its next status once the last one has been handled
PumpSendStatus ==
    /\ wire = <<>>
    /\ wsQueue = <<>>
    /\ \E i \in 1..Len(StatusFrames) : PumpSend(StatusFrames[i], MaxStatus)
PumpSendFlap ==
    /\ wire = <<>>
    /\ wsQueue = <<>>
    /\ \E i \in 1..Len(FlapFrames) : PumpSend(FlapFrames[i], MaxFlap)
PumpSendNoise == \E i \in 1..Len(NoiseItems) : PumpSend(NoiseItems[i], MaxNoise)
PumpSendRepeat == \E i \in 1..Len(RepeatFrames) : PumpSend(RepeatFrames[i], MaxFed)
PumpSendIngress == \E i \in 1..Len(IngressFrames) : PumpSend(IngressFrames[i], MaxFed)
PumpSendUnknown == \E i \in 1..Len(UnknownFrames) : PumpSend(UnknownFrames[i], MaxFed)
PumpSendHeartbeat ==
    \/ \E i \in 1..Len(HeartbeatItems) : PumpSend(HeartbeatItems[i], MaxFed)
    \/ \E i \in 1..Len(HeartbeatFrames) : PumpSend(HeartbeatFrames[i], MaxFed)

(***************************************************************************)
(* Specifications.                                                         *)
(***************************************************************************)
\* the gateway: concurrent POST /send requests and inbound frames
Next ==
    \/ Connect
    \/ SendGateway
    \/ WriteDone
    \/ WriteFail
    \/ DrainDone
    \/ QuietDone
    \/ PumpSendInbound
    \/ ReadAll

Spec == Init /\ [][Next]_vars

\* POST /send on every kind of request
NextApi ==
    \/ Connect
    \/ SendApi
    \/ WriteDone
    \/ WriteFail
    \/ DrainDone
    \/ QuietDone

SpecApi == Init /\ [][NextApi]_vars

\* stream reassembly over every split of the inbound bytes
NextStream ==
    \/ Connect
    \/ PumpSendStream
    \/ ReadChunk

SpecStream == Init /\ [][NextStream]_vars

\* decode and projection of whole inbound frames
NextPump ==
    \/ Connect
    \/ PumpSendPump
    \/ ReadAll
    \/ Deliver
    \/ Tick

SpecPump == Init /\ [][NextPump]_vars

\* status frames with heartbeat traffic around and inside them
NextHeartbeat ==
    \/ Connect
    \/ PumpSendHeartbeat
    \/ ReadChunk

SpecHeartbeat == Init /\ [][NextHeartbeat]_vars

\* the status projection over sequences of status frames and clock ticks
NextStatus ==
    \/ Connect
    \/ PumpSendStatus
    \/ ReadAll
    \/ Deliver
    \/ Tick

SpecStatus == Init /\ [][NextStatus]_vars

\* the status projection over sequences of NOT PROGRAMMED and FILLING frames
NextFlap ==
    \/ Connect
    \/ PumpSendFlap
    \/ ReadAll
    \/ Deliver
    \/ Tick

SpecFlap == Init /\ [][NextFlap]_vars

\* line noise and terminators, read in chunks of every size the line holds
NextNoise ==
    \/ Connect
    \/ PumpSendNoise
    \/ ReadAll

SpecNoise == Init /\ [][NextNoise]_vars

\* frames with and without a wrapper block inside the terminator, read in
\* every split
NextRepeat ==
    \/ Connect
    \/ PumpSendRepeat
    \/ ReadChunk

SpecRepeat == Init /\ [][NextRepeat]_vars

\* well-formed and malformed frames, read in every split
NextIngress ==
    \/ Connect
    \/ PumpSendIngress
    \/ ReadChunk

SpecIngress == Init /\ [][NextIngress]_vars

\* frames holding a transaction the decoder returns null for, read in every
\* split
NextUnknown ==
    \/ Connect
    \/ PumpSendUnknown
    \/ ReadChunk

SpecUnknown == Init /\ [][NextUnknown]_vars

\* the gateway with a port that fails: opens, writes and the port itself
NextTransport ==
    \/ Connect
    \/ ConnectFail
    \/ PortError
    \/ PumpSendInbound
    \/ ReadChunk
    \/ SendGateway
    \/ WriteDone
    \/ WriteFail
    \/ DrainDone
    \/ QuietDone

SpecTransport == Init /\ [][NextTransport]_vars

\* connect(), disconnect() and POST /config called at any time, also while an
\* earlier call is in progress
NextConfig ==
    \/ ConnectCall
    \/ OpenDone
    \/ OpenFail
    \/ DisconnectCall
    \/ ConfigCall
    \/ CloseDone
    \/ PortClose

SpecConfig == Init /\ [][NextConfig]_vars

\* connect() and POST /config in every interleaving with the open callbacks,
\* and the bytes read from the devices they open
NextOpen ==
    \/ ConnectCall
    \/ ConfigCall
    \/ OpenDone
    \/ OpenFail
    \/ PumpSendInbound
    \/ ReadAll

SpecOpen == Init /\ [][NextOpen]_vars

\* the pump sending while the port closes by itself and is opened again
NextResume ==
    \/ Connect
    \/ PortClose
    \/ PumpSendInbound
    \/ ReadChunk

SpecResume == Init /\ [][NextResume]_vars

\* the pump sending while the port closes by itself or by disconnect()
NextClose ==
    \/ Connect
    \/ PortClose
    \/ DisconnectCall
    \/ CloseDone
    \/ PumpSendInbound
    \/ ReadChunk

SpecClose == Init /\ [][NextClose]_vars

\* POST /send with disconnect() called at any time, also while a write is in
\* progress
NextSettle ==
    \/ Connect
    \/ DisconnectCall
    \/ CloseDone
    \/ SendGateway
    \/ WriteDone
    \/ WriteFail
    \/ DrainDone
    \/ QuietDone

\* POST /send before the port is opened, after disconnect() and after the port
\* has closed by itself
NextOffline ==
    \/ Connect
    \/ PortClose
    \/ DisconnectCall
    \/ CloseDone
    \/ SendGateway

SpecOffline == Init /\ [][NextOffline]_vars

\* every callback the port owes is called in the end
SpecSettle ==
    /\ Init /\ [][NextSettle]_vars
    /\ WF_vars(CloseDone)
    /\ WF_vars(WriteDone \/ WriteFail)
    /\ WF_vars(DrainDone)
    /\ WF_vars(QuietDone)

\* POST /send with the requests of CrcRequests
NextCrc ==
    \/ Connect
    \/ SendCrc
    \/ WriteDone
    \/ WriteFail
    \/ DrainDone
    \/ QuietDone

SpecCrc == Init /\ [][NextCrc]_vars

\* the codec functions called on their own
NextCodec ==
    \/ ProbeFrame
    \/ ProbeBcd
    \/ ProbePrice
    \/ ProbeParse

SpecCodec == Init /\ [][NextCodec]_vars

(***************************************************************************)
(* Properties.                                                             *)
(***************************************************************************)
WrittenCalls == {i \in 1..Len(calls) : calls[i].written}

RECURSIVE WrittenFrames(_)
WrittenFrames(cs) ==
    IF cs = <<>> THEN <<>>
    ELSE (IF Head(cs).written THEN <<Head(cs).frame>> ELSE <<>>) \o WrittenFrames(Tail(cs))

\* C1 (SpecStream): once every byte the pump sent has been read, in whatever
\* chunks, the frames extracted are exactly the frames sent, in order, and the
\* reassembly buffer is empty.
C1_BatchingIndependent ==
    wire = <<>> => (extracted = fed /\ byteBuffer = <<>>)

\* C2 (Spec): every buffer handed to the port is the frame of a POST /send
\* request that reached port.write, one buffer per such request; handling
\* inbound frames adds none.
C2_NoUnsolicitedWrite ==
    /\ Len(portWrites) = Cardinality(WrittenCalls)
    /\ \A k \in 1..Len(portWrites) : \E i \in WrittenCalls : calls[i].frame = portWrites[k]

C2_Witness ==
    /\ \E i \in 1..Len(emitted) : emitted[i].transaction.type = 1
    /\ \E i \in 1..Len(emitted) : emitted[i].transaction.type = 3
    /\ Len(portWrites) >= 1

\* C3 (Spec): at most one frame is in its write, drain or quiet period at any
\* time, so no write starts before the previous one has finished all three.
C3_HalfDuplex ==
    Cardinality({i \in 1..Len(calls) : calls[i].phase \in Active}) <= 1

\* C4 (Spec): the buffers handed to the port are the frames of the requests
\* that reached port.write, one each, in the order the requests were handled.
C4_SubmissionOrder ==
    portWrites = WrittenFrames(calls)

C4_Witness ==
    /\ Len(portWrites) = 2
    /\ portWrites[1] # portWrites[2]
    /\ calls[1].phase \in Active
    /\ calls[2].phase \in Active

RECURSIVE StrictValue(_, _, _)
StrictValue(chars, radix, acc) ==
    IF chars = <<>> THEN acc
    ELSE IF DigitValue(Head(chars)) >= radix THEN -1
    ELSE StrictValue(Tail(chars), radix, acc * radix + DigitValue(Head(chars)))

\* the address an input designates: a number 80..111, a decimal string of
\* 80..111, or a hex string (with or without 0x) of 0x50..0x6F; -1 otherwise
Designated(a) ==
    IF a.t = "num" THEN (IF a.v \in 80..111 THEN a.v ELSE -1)
    ELSE IF a.t = "str"
    THEN LET digits == IF HasHexPrefix(a.v) THEN Tail(Tail(a.v)) ELSE a.v
             dec == IF a.v = <<>> THEN -1 ELSE StrictValue(a.v, 10, 0)
             hex == IF digits = <<>> THEN -1 ELSE StrictValue(digits, 16, 0)
         IN  IF dec \in 80..111 THEN dec
             ELSE IF hex \in 80..111 THEN hex
             ELSE -1
    ELSE -1

\* C6 (SpecApi): a request whose pumpAddress designates an address in
\* 0x50..0x6F, in decimal or hex form, is not rejected for its address and its
\* frame carries that address; every other pumpAddress is answered 400 and
\* no frame is built.
C6_AddressForms ==
    \A i \in 1..Len(calls) :
        LET d == Designated(calls[i].req.pumpAddress)
        IN  IF d # -1
            THEN /\ calls[i].error \notin {"missing", "address"}
                 /\ calls[i].frame # <<>> => calls[i].frame[1] = d
            ELSE calls[i].http = 400 /\ calls[i].frame = <<>>

\* the commands the encoder must refuse
EncodeFails(command) ==
    \/ /\ command.type = "CD2"
       /\ \/ command.data.nozzles = <<>>
          \/ \E k \in 1..Len(command.data.nozzles) : command.data.nozzles[k] \notin 1..15
    \/ command.type = "CD5" /\ command.data.prices = <<>>
    \/ command.type \in {"CD14", "CD15"} /\ command.data.nozzle \notin 0..15
    \/ command.type = "CD101" /\ command.data.counter \notin (1..9) \cup (17..25)
    \/ command.type \notin {"CD1", "CD2", "CD3", "CD4", "CD5", "CD7", "CD9", "CD13",
                            "CD14", "CD15", "CD101"}

\* C7 (SpecApi): a request whose command fails encoding is answered with an
\* error, and the step that handles it hands nothing to the port.
C7_EncodeErrorsEmitNothing ==
    [][(/\ Len(calls') = Len(calls) + 1
        /\ EncodeFails(calls'[Len(calls')].req.command))
       => (/\ calls'[Len(calls')].http \in {400, 500}
           /\ calls'[Len(calls')].phase = "answered"
           /\ portWrites' = portWrites)]_vars

C7_Witness ==
    \E i \in 1..Len(calls) :
        /\ calls[i].connected
        /\ calls[i].req.command = CD2(<<16>>)
        /\ calls[i].http = 500
        /\ portWrites = <<>>

\* C8 (SpecApi): a CD1 whose command byte is not a recognized command, and a
\* CD13 whose filling type is not 0 or 1, is answered with an error and no
\* frame of it reaches the port.
C8_CommandRange ==
    \A i \in 1..Len(calls) :
        LET command == calls[i].req.command
        IN  (\/ /\ command.type = "CD1"
                /\ command.data.command \notin {0, 2, 3, 4, 5, 6, 8, 10, 13, 14, 15}
             \/ /\ command.type = "CD13"
                /\ command.data.fillingType \notin {0, 1})
            => (~calls[i].written /\ calls[i].phase = "answered"
                /\ calls[i].http \in {400, 500})

\* C9 (SpecPump): the status held in the pump state is always one of the
\* recognized codes 0, 1, 2, 4, 5, 6, 7, 8.
C9_StatusRecognized ==
    pumpState # NoState => pumpState.status \in {0, 1, 2, 4, 5, 6, 7, 8}

\* C10 (SpecPump): every DC3 message emitted carries a price within
\* [0.5, 10.0] (500..10000 thousandths), and so does every price held in the
\* pump state; a frame whose DC3 price is outside the range yields no DC3
\* message.
C10_PriceClamp ==
    /\ \A i \in 1..Len(emitted) :
          emitted[i].transaction.type = 3 =>
              /\ emitted[i].transaction.price >= 500
              /\ emitted[i].transaction.price <= 10000
              /\ \E k \in 1..Len(emitted[i].rawFrame) - 5 :
                    /\ emitted[i].rawFrame[k] = 3
                    /\ emitted[i].rawFrame[k + 1] = 4
                    /\ decodeBCD(SubSeq(emitted[i].rawFrame, k + 2, k + 4))
                          = emitted[i].transaction.price
    /\ (pumpState # NoState /\ "price" \in DOMAIN pumpState) =>
          (pumpState.price >= 500 /\ pumpState.price <= 10000)

C10_Witness ==
    /\ \E i \in 1..Len(extracted) : extracted[i] = PumpFrames[10]
    /\ \E i \in 1..Len(extracted) : extracted[i] = PumpFrames[6]
    /\ wsQueue = <<>>
    /\ pumpState # NoState
    /\ "price" \in DOMAIN pumpState
    /\ pumpState.price = 500

\* a heartbeat frame: fewer than 6 bytes, a 3-byte 50 X FA block, or every
\* byte but the last two a heartbeat byte
HeartbeatFrame(frame) ==
    \/ Len(frame) < 6
    \/ Len(frame) = 3 /\ frame[1] = 80 /\ frame[3] = 250
    \/ \A k \in 1..(Len(frame) - 2) : frame[k] \in {80, 81, 32, 112, 250}

\* C11 (SpecHeartbeat): no pump message is made of a heartbeat frame: the frame
\* of every message emitted is not a heartbeat frame and is one of the status
\* frames the pump sent, without any byte of the wrapper blocks, short frames
\* and heartbeat frames around or inside it.
C11_HeartbeatNeverEmitted ==
    \A i \in 1..Len(emitted) :
        /\ ~HeartbeatFrame(emitted[i].rawFrame)
        /\ emitted[i].rawFrame \in {HeartbeatFrames[1], HeartbeatFrames[2]}

C11_Witness ==
    /\ wire = <<>>
    /\ fed = <<HeartbeatItems[6], HeartbeatFrames[3]>>
    /\ extracted = <<HeartbeatItems[6], HeartbeatFrames[1]>>
    /\ Len(emitted) = 1
    /\ emitted[1].transaction = [type |-> 1, status |-> 0]

\* the DC1 samples the client has handled, in order, each with the time it
\* was handled
IsStatusSample(d) == d.transaction.type = 1
StatusSamples == SelectSeq(delivered, IsStatusSample)

\* samples alternating between status 0 and status 5, each less than 2 s
\* after the one before
Alternating(samples) ==
    \A k \in 1..Len(samples) :
        /\ samples[k].transaction.status \in {0, 5}
        /\ k > 1 => /\ samples[k].transaction.status # samples[k - 1].transaction.status
                    /\ samples[k].t - samples[k - 1].t < 2000

\* C12 (SpecStatus): while the DC1 samples handled so far alternate between
\* 0 and 5, each less than 2 s after the one before, the exported status is 5
\* once a status 5 has been handled.
C12_AntiFlapIdle ==
    (/\ Alternating(StatusSamples)
     /\ \E k \in 1..Len(StatusSamples) : StatusSamples[k].transaction.status = 5)
    => (pumpState # NoState /\ pumpState.status = 5)

C12_Witness ==
    /\ Len(StatusSamples) = 3
    /\ Alternating(StatusSamples)
    /\ StatusSamples[1].transaction.status = 0
    /\ StatusSamples[3].transaction.status = 0
    /\ StatusSamples[3].t - StatusSamples[1].t >= 2000
    /\ pumpState.status = 5

\* a DC1 of the given status handled less than 2 s before the last DC1,
\* among the last `depth` samples
RecentSample(status, depth) ==
    \E k \in 1..Len(StatusSamples) :
        /\ k > Len(StatusSamples) - depth
        /\ StatusSamples[k].transaction.status = status
        /\ StatusSamples[Len(StatusSamples)].t - StatusSamples[k].t < 2000

IsOf(frame, message) == message.rawFrame = frame
EmittedFor(frame) == LET Of(message) == IsOf(frame, message) IN SelectSeq(emitted, Of)
TimesExtracted(frame) == Cardinality({i \in 1..Len(extracted) : extracted[i] = frame})

\* C14 (SpecIngress): for the 15-byte frame carrying DC1 then DC3 the pattern
\* matcher yields nothing, and each time the frame is extracted two messages
\* are emitted for it, the DC1 first and the DC3 second, with one timestamp;
\* for the frame whose DC3 price is out of range the pattern matcher yields
\* nothing either.
C14_MultiTransactionOrder ==
    LET frame == IngressFrames[1]
        messages == EmittedFor(frame)
    IN  /\ Len(frame) > 9
        /\ tryDecodeFrameByPattern(frame) = <<>>
        /\ tryDecodeFrameByPattern(IngressFrames[2]) = <<>>
        /\ Len(messages) = 2 * TimesExtracted(frame)
        /\ \A k \in 1..Len(messages) :
              /\ k % 2 = 1 => /\ messages[k].transaction.type = 1
                              /\ messages[k + 1].transaction.type = 3
                              /\ messages[k + 1].timestamp = messages[k].timestamp
                              /\ messages[k + 1].address = messages[k].address

C14_Witness ==
    /\ TimesExtracted(IngressFrames[1]) = 1
    /\ TimesExtracted(IngressFrames[2]) = 1
    /\ Len(EmittedFor(IngressFrames[1])) = 2
    /\ Len(EmittedFor(IngressFrames[2])) = 1

\* C15 as stated (SpecIngress): the frame 50 34 01 01 05 03 04 00 21 80 11 9C
\* 82 03 FA produces one message, DC1 with status 5, and no DC3.
C15_ScenarioStatusOnly ==
    LET messages == EmittedFor(IngressFrames[1])
    IN  /\ Len(messages) = TimesExtracted(IngressFrames[1])
        /\ \A k \in 1..Len(messages) : messages[k].transaction = [type |-> 1, status |-> 5]

\* C15 amended (SpecIngress): each time that frame is extracted it produces
\* two messages: DC1 with status 5, then DC3 with price 2.180 (the BCD bytes
\* 00 21 80), nozzle 1 and nozzle out.
C15_ScenarioStatusAndNozzle ==
    LET messages == EmittedFor(IngressFrames[1])
    IN  /\ Len(messages) = 2 * TimesExtracted(IngressFrames[1])
        /\ \A k \in 1..Len(messages) :
              messages[k].transaction =
                  IF k % 2 = 1 THEN [type |-> 1, status |-> 5]
                  ELSE [type |-> 3, price |-> 2180, nozzle |-> 1, nozzleOut |-> TRUE]

C15_Witness ==
    /\ fed = <<IngressFrames[1]>>
    /\ extracted = <<IngressFrames[1]>>
    /\ Len(emitted) = 2
    /\ emitted[2].transaction.price = 2180

\* C19 (SpecIngress): reading inbound bytes leaves the gateway connected, and
\* once every byte has been read each well-formed frame the pump sent, also
\* one that follows a malformed frame, has been extracted and a message has
\* been emitted for it.
C19_MalformedNeverStopsDecoding ==
    /\ (fed # <<>>) => isConnected
    /\ (wire = <<>>) =>
          \A k \in 1..Len(fed) :
              fed[k] \in {IngressFrames[1], IngressFrames[2], IngressFrames[3]}
              => /\ TimesExtracted(fed[k]) >= 1
                 /\ Len(EmittedFor(fed[k])) >= 1

\* C16 (SpecCodec): parseFrame of a frame built from one encoded command
\* succeeds, with the address and control the frame was built with and
\* exactly one transaction, equal in trans, lng and data to the encoded one.
C16_FrameRoundTrip ==
    probe.kind = "frame" =>
        /\ probe.parsed # NullFrame
        /\ probe.parsed.address = probe.address
        /\ probe.parsed.control = probe.control
        /\ Len(probe.parsed.transactions) = 1
        /\ probe.parsed.transactions[1].trans = probe.transaction.trans
        /\ probe.parsed.transactions[1].lng = probe.transaction.lng
        /\ probe.parsed.transactions[1].data = probe.transaction.data

C16_Witness ==
    /\ probe.kind = "frame"
    /\ probe.address = 111
    /\ probe.control = 250
    /\ probe.transaction.trans = 5
    /\ probe.transaction.lng = 6
    /\ probe.parsed.transactions = <<probe.transaction>>

\* C17 (SpecCodec): decodeBCD of encodeBCD(n, w) is n, and encodeBCD(n, w) is
\* w bytes whose nibbles are decimal digits, for every width w in 1..8 and
\* every whole number n of at most 2w digits.
C17_BcdRoundTrip ==
    probe.kind = "bcd" =>
        /\ probe.decoded = probe.n
        /\ Len(probe.encoded) = probe.w
        /\ \A i \in 1..Len(probe.encoded) :
              probe.encoded[i] \div 16 <= 9 /\ probe.encoded[i] % 16 <= 9

\* CRC-16-CCITT by its definition: the message bits enter a 16-bit register
\* one at a time, high bit of each byte first; the register starts at 0xFFFF
\* and is reduced by the polynomial 0x1021 whenever the bit shifted out
\* differs from the message bit
RefCrcBits[reg \in Nat, byte \in Nat, n \in Nat] ==
    IF n = 0 THEN reg
    ELSE LET bit == (byte \div (2 ^ (n - 1))) % 2
             out == (reg \div 32768) % 2
             shifted == (reg * 2) % 65536
         IN  RefCrcBits[IF out # bit THEN BitXor(shifted, 4129) ELSE shifted, byte, n - 1]

RefCrcBytes[reg \in Nat, bytes \in Seq(Nat), i \in Nat] ==
    IF i > Len(bytes) THEN reg
    ELSE RefCrcBytes[RefCrcBits[reg, bytes[i], 8], bytes, i + 1]

RefCrc(bytes) == RefCrcBytes[65535, bytes, 1]

\* the buffer written for call i, the writes being in the order of the calls
WrittenBuffer(i) == portWrites[Cardinality({j \in WrittenCalls : j <= i})]

\* C18 (SpecCrc): every buffer written to the port is bytes ending 03 FA, and
\* the two bytes before the terminator are the CRC-16-CCITT (init 0xFFFF,
\* polynomial 0x1021, high byte first) of the bytes written before them,
\* whatever the control value and payload of the request; two calls with the
\* same request write the same bytes.
C18_EgressCrc ==
    /\ RefCrc(<<49, 50, 51, 52, 53, 54, 55, 56, 57>>) = 10673
    /\ \A k \in 1..Len(portWrites) :
          LET w == portWrites[k]
              n == Len(w)
              crc == RefCrc(SubSeq(w, 1, n - 4))
          IN  /\ n >= 8
              /\ \A i \in 1..n : w[i] \in 0..255
              /\ w[n - 1] = 3 /\ w[n] = 250
              /\ w[n - 3] = crc \div 256
              /\ w[n - 2] = crc % 256
    /\ \A i, j \in WrittenCalls :
          calls[i].req = calls[j].req => WrittenBuffer(i) = WrittenBuffer(j)

C18_Witness ==
    /\ Len(portWrites) = 2
    /\ portWrites[1] = portWrites[2]
    /\ portWrites[1][2] = 44
    /\ calls[1].req.control = 300
    /\ calls[2].req.control = 300

\* the errors that reached the supervisor: the server's error log entries and
\* the requests answered 500 for a failed write
RaisedErrors ==
    Len(ErrorLogs) + Cardinality({i \in 1..Len(calls) : calls[i].error = "write"})

\* C20 (SpecTransport): every step that is a transport error (a failed open,
\* an 'error' event of the port, a failed write) raises the error to the
\* supervisor and leaves the gateway disconnected with an empty reassembly
\* buffer.
C20_TransportErrorDisconnects ==
    [][(ConnectFail \/ PortError \/ WriteFail)
       => (/\ RaisedErrors' = RaisedErrors + 1
           /\ ~isConnected'
           /\ byteBuffer' = <<>>)]_vars

\* C21 (Spec): every POST /send that reaches sendFrame has published a 'sent'
\* log event with the frame's hex dump by the time the write is pending, and
\* also when sendFrame fails because the port is not connected.
C21_SentLogBeforeWrite ==
    \A i \in 1..Len(calls) :
        calls[i].frame # <<>> =>
            /\ Len(calls[i].sentLog) = 1
            /\ calls[i].sentLog[1].type = "sent"
            /\ calls[i].sentLog[1].frameHex = calls[i].frame

\* the SerialPort objects that hold their device open
OpenDevices == {k \in 1..Len(port.devices) : port.devices[k].state \in {"open", "closing"}}

\* C22 (SpecConfig): whatever the interleaving of connect(), disconnect() and
\* POST /config, at most one serial device is open at any time, so a device
\* that is open is closed before another is opened, and the SerialPort the
\* handler holds was created with the configuration in force.
C22_CloseThenOpen ==
    /\ Cardinality(OpenDevices) <= 1
    /\ port.ref # 0 => port.devices[port.ref].config = port.config

\* C23 (SpecSettle): every POST /send whose frame was handed to port.write is
\* answered in the end (sendFrame resolved or rejected), also when
\* disconnect() runs while the write is in progress.
C23_WriteSettles ==
    \A i \in 1..MaxCalls :
        (Len(calls) >= i /\ calls[i].written)
            ~> (Len(calls) >= i /\ calls[i].phase = "answered")

\* C24 (SpecResume): while the port is closed after closing by itself, the
\* reassembly buffer holds the bytes it held at the close; the frames
\* extracted are at all times the first frames the pump sent, each once, and
\* all of them once the port, opened again, has read every byte.
C24_PartialFrameResumed ==
    /\ ~isConnected => byteBuffer = port.closedWith
    /\ Len(extracted) <= Len(fed)
    /\ extracted = SubSeq(fed, 1, Len(extracted))
    /\ wire = <<>> => (extracted = fed /\ byteBuffer = <<>>)

C24_Witness ==
    /\ Len(port.devices) = 2
    /\ isConnected
    /\ port.closedWith # <<>>
    /\ wire = <<>>
    /\ Len(fed) = 1
    /\ extracted = fed

\* the state disconnect() is to leave: no device open, the connection state
\* disconnected, the reassembly buffer empty
Flushed ==
    /\ \A k \in 1..Len(port.devices) : port.devices[k].state = "closed"
    /\ ~isConnected
    /\ byteBuffer = <<>>

\* C25 (SpecClose): whenever disconnect() resolves, no device is open, the
\* connection state is disconnected and the reassembly buffer is empty: in
\* every state in which it resolves at once (no port, or not connected), and
\* after every step in which its close callback resolves it.
C25_CloseFlushes ==
    /\ []((port.ref = 0 \/ ~isConnected) => Flushed)
    /\ [][CloseDone => Flushed']_vars

\* C26 (SpecPump): the projected state of one address is not changed by a
\* message from another address: when the client handles a message whose
\* address is not the address of the state it holds, that state stays as it is.
C26_StatePerAddress ==
    [][(/\ pumpState # NoState
        /\ wsQueue # <<>>
        /\ wsQueue' = Tail(wsQueue)
        /\ Head(wsQueue).address # pumpState.address)
       => pumpState' = pumpState]_vars

\* C27 (SpecPump): the status the client shows is a status some DC1 it has
\* handled carried, and it shows none before it has handled a DC1.
C27_NoInventedStatus ==
    pumpState # NoState =>
        \E i \in 1..Len(delivered) :
            /\ delivered[i].transaction.type = 1
            /\ delivered[i].transaction.status = pumpState.status

\* C28 (SpecApi): a frame written for a request without a control value has
\* control byte 0x37 when the command is CD1 AUTHORIZE (the frame to pump 0x50
\* begins 50 37 01 01 06) and 0x39 when it is CD1 RESET.
C28_GuideControlBytes ==
    \A i \in 1..Len(calls) :
        (/\ calls[i].written
         /\ "control" \notin DOMAIN calls[i].req
         /\ calls[i].req.command.type = "CD1")
            => /\ calls[i].req.command.data.command = 6
                    => SubSeq(calls[i].frame, 2, 5) = <<55, 1, 1, 6>>
               /\ calls[i].req.command.data.command = 5
                    => SubSeq(calls[i].frame, 2, 5) = <<57, 1, 1, 5>>

\* the address, length and heartbeat filters at the head of processFrame
PassesFilters(frame) ==
    /\ frame[1] >= 80 /\ frame[1] <= 111
    /\ Len(frame) >= 6
    /\ ~(\A i \in 1..(Len(frame) - 2) : frame[i] \in HeartbeatBytes)

\* C29 (SpecPump): every extracted frame that passes the address, length and
\* heartbeat filters and for which no message is emitted has an
\* 'Unrecognized frame' log entry carrying the frame and its address.
C29_UnrecognizedLogged ==
    \A k \in 1..Len(extracted) :
        (/\ PassesFilters(extracted[k])
         /\ \A m \in 1..Len(emitted) : emitted[m].rawFrame # extracted[k])
            => \E j \in 1..Len(serverLog) :
                  /\ serverLog[j].kind = "unrecognized"
                  /\ serverLog[j].rawFrame = extracted[k]
                  /\ serverLog[j].address = extracted[k][1]

\* the transactions of a frame the decoder returns a record for, in wire order
Decodable(frame) ==
    LET txs == parseFrame(frame).transactions
        Ok(tx) == decodeResponseTransaction(tx) # NullTx
        good == SelectSeq(txs, Ok)
    IN  [i \in 1..Len(good) |-> decodeResponseTransaction(good[i])]

UnknownIn(frame) ==
    LET txs == parseFrame(frame).transactions
        Bad(tx) == decodeResponseTransaction(tx) = NullTx
    IN  SelectSeq(txs, Bad)

UnknownLogsFor(frame) ==
    LET Of(entry) == entry.kind = "unknownTransaction" /\ entry.rawFrame = frame
    IN  SelectSeq(serverLog, Of)

MultiWithUnknown(frame) ==
    /\ PassesFilters(frame)
    /\ parseFrame(frame) # NullFrame
    /\ Len(parseFrame(frame).transactions) >= 2
    /\ UnknownIn(frame) # <<>>

\* C30 (SpecUnknown): for an extracted frame of two or more transactions of
\* which the decoder returns null for at least one, each time the frame is
\* processed every transaction the decoder returns a record for, before and
\* after the unknown one, is emitted as a message in wire order, and each
\* unknown transaction is logged as unknownTransaction and nothing else.
C30_UnknownTransactionSkipped ==
    \A k \in 1..Len(extracted) :
        MultiWithUnknown(extracted[k]) =>
            LET frame == extracted[k]
                good == Decodable(frame)
                bad == UnknownIn(frame)
                msgs == EmittedFor(frame)
                logs == UnknownLogsFor(frame)
                n == TimesExtracted(frame)
            IN  /\ Len(msgs) = n * Len(good)
                /\ \A j \in 1..Len(msgs) :
                      msgs[j].transaction = good[((j - 1) % Len(good)) + 1]
                /\ Len(logs) = n * Len(bad)
                /\ \A j \in 1..Len(logs) :
                      logs[j].transaction = bad[((j - 1) % Len(bad)) + 1]
                /\ \A j \in 1..Len(serverLog) :
                      serverLog[j].rawFrame = frame
                          => serverLog[j].kind = "unknownTransaction"

C30_Witness ==
    /\ UnknownFrames[1] \in {extracted[k] : k \in 1..Len(extracted)}
    /\ \E a, b \in 1..Len(emitted) :
          /\ a < b
          /\ emitted[a].rawFrame = UnknownFrames[1]
          /\ emitted[b].rawFrame = UnknownFrames[1]
          /\ emitted[a].transaction.type = 1
          /\ emitted[b].transaction.type = 3
    /\ \E j \in 1..Len(serverLog) :
          /\ serverLog[j].kind = "unknownTransaction"
          /\ serverLog[j].transaction.trans = 4
          /\ serverLog[j].rawFrame = UnknownFrames[1]

\* the DC1 samples of the given status among the last HistoryMax samples and
\* less than 2 s older than the last one
RecentCount(status) ==
    Cardinality({k \in 1..Len(StatusSamples) :
                    /\ k > Len(StatusSamples) - HistoryMax
                    /\ StatusSamples[k].transaction.status = status
                    /\ StatusSamples[Len(StatusSamples)].t - StatusSamples[k].t < 2000})

\* C31 (SpecFlap): when handling a DC1 changes the exported status to 0 and no
\* status 1, 2 or 5 is in the recent 2 s window, status 0 occurs at least 3
\* times in that window.
C31_ZeroNeedsThreeZeros ==
    [][(/\ pumpState # NoState
        /\ pumpState.status # 0
        /\ pumpState'.status = 0
        /\ RecentCount(1)' = 0 /\ RecentCount(2)' = 0 /\ RecentCount(5)' = 0)
       => RecentCount(0)' >= 3]_vars

\* C32 (SpecNoise): after every ingress batch the reassembly buffer holds at
\* most 1000 bytes, whatever the sizes of the chunks read.
C32_BufferBounded == Len(byteBuffer) <= BufferCap

\* a 9-byte frame ADR CTRL 01 01 STATUS CRC1 CRC2 03 FA with ADR in 0x50..0x6F
\* and STATUS in 0..8
StatusFrame9(frame) ==
    /\ Len(frame) = 9
    /\ frame[1] >= 80 /\ frame[1] <= 111
    /\ frame[3] = 1 /\ frame[4] = 1
    /\ frame[5] <= 8
    /\ frame[8] = ETX /\ frame[9] = SF

TransactionsIn(frame) ==
    IF parseFrame(frame) = NullFrame THEN 0 ELSE Len(parseFrame(frame).transactions)

\* C33 (SpecIngress): each time a 9-byte status frame is extracted exactly one
\* message is emitted for it, a DC1 with the frame's status byte; and for
\* every extracted frame no more messages are emitted than the frame has
\* transactions, each time it is extracted.
C33_PatternOrStructural ==
    \A k \in 1..Len(extracted) :
        LET frame == extracted[k]
            msgs == EmittedFor(frame)
        IN  /\ StatusFrame9(frame) =>
                  /\ Len(msgs) = TimesExtracted(frame)
                  /\ \A j \in 1..Len(msgs) :
                        msgs[j].transaction = [type |-> 1, status |-> frame[5]]
            /\ Len(msgs) <= TimesExtracted(frame) * TransactionsIn(frame)

C33_Witness ==
    /\ \E k \in 1..Len(extracted) :
          /\ StatusFrame9(extracted[k])
          /\ extracted[k] = IngressFrames[3]
          /\ Len(EmittedFor(extracted[k])) = 1
    /\ \E k \in 1..Len(extracted) :
          /\ TransactionsIn(extracted[k]) = 2
          /\ Len(EmittedFor(extracted[k])) = 2

\* the scaled value of the probed price has at most 6 digits
FitsSixDigits == probe.q < 9999995

\* C34 as stated (SpecCodec): for a price p whose scaled value fits 6 digits,
\* decodePrice(encodePrice(p)) equals 10 x p (probe.q is p in
\* hundred-thousandths, probe.decoded the result in thousandths).
C34_DecodeIsTenTimes ==
    (probe.kind = "price" /\ FitsSixDigits) => 10 * probe.decoded = probe.q

\* C34 amended (SpecCodec): for a price p whose scaled value fits 6 digits,
\* decodePrice(encodePrice(p)) is 10 x p rounded to the nearest thousandth,
\* which is 10 x p itself when p has at most four decimals, and differs from
\* p unless p is 0.
C34_DecodeIsTenTimesRounded ==
    (probe.kind = "price" /\ FitsSixDigits) =>
        /\ 10 * probe.decoded - probe.q > -5
        /\ 10 * probe.decoded - probe.q <= 5
        /\ probe.q % 10 = 0 => 10 * probe.decoded = probe.q
        /\ probe.q # 0 => 100 * probe.decoded # probe.q

C34_Witness ==
    /\ probe.kind = "price"
    /\ probe.q = 218007
    /\ probe.encoded = <<2, 24, 1>>
    /\ probe.decoded = 21801

\* the 0-based offset of the k-th transaction, from the lengths of the ones
\* before it; for k one past the last, the offset where parsing stopped
RECURSIVE OffsetOf(_, _)
OffsetOf(transactions, k) ==
    IF k = 1 THEN 2 ELSE OffsetOf(transactions, k - 1) + 2 + transactions[k - 1].lng

\* C35 (SpecCodec): parseFrame returns null exactly when the frame is shorter
\* than 8 bytes, does not end in 03 FA or has ADR outside 0x50..0x6F;
\* otherwise its transactions lie one after the other from offset 2, each with
\* its TRANS, LNG and LNG data bytes as in the frame and wholly before offset
\* length-4, and parsing stopped where no further transaction fits before
\* length-4.
C35_ParseFrameShape ==
    probe.kind = "parse" =>
        LET frame == probe.frame
            limit == Len(frame) - 4
            txs == probe.parsed.transactions
            stop == OffsetOf(txs, Len(txs) + 1)
        IN  /\ probe.parsed = NullFrame
                  <=> \/ Len(frame) < 8
                      \/ frame[Len(frame) - 1] # 3 \/ frame[Len(frame)] # 250
                      \/ frame[1] < 80 \/ frame[1] > 111
            /\ probe.parsed # NullFrame =>
                  /\ probe.parsed.address = frame[1]
                  /\ \A k \in 1..Len(txs) :
                        LET o == OffsetOf(txs, k)
                        IN  /\ txs[k].trans = frame[o + 1]
                            /\ txs[k].lng = frame[o + 2]
                            /\ Len(txs[k].data) = txs[k].lng
                            /\ o + 2 + txs[k].lng <= limit
                            /\ txs[k].data = SubSeq(frame, o + 3, o + 2 + txs[k].lng)
                  /\ \/ stop = limit
                     \/ stop + 1 = limit
                     \/ stop + 2 + frame[stop + 2] > limit

C35_Witness ==
    /\ probe.kind = "parse"
    /\ probe.frame = <<80, 49, 1, 1, 5, 3, 9, 0, 33, 0, 0, 3, 250>>
    /\ probe.parsed.transactions = <<[trans |-> 1, lng |-> 1, data |-> <<5>>]>>

\* the items the pump sent that carry the frame
TimesSent(frame) == Cardinality({i \in 1..Len(fed) : extractFrames(fed[i]) = <<frame>>})

\* C36 (SpecRepeat): a frame the pump sent is not extracted, and no message
\* is emitted for it, more often than the pump sent it, also when a wrapper
\* block sits between the 03 and the FA of its terminator.
C36_NoFrameTwice ==
    \A k \in 1..Len(extracted) :
        TimesSent(extracted[k]) >= 1 =>
            /\ TimesExtracted(extracted[k]) <= TimesSent(extracted[k])
            /\ Len(EmittedFor(extracted[k])) <= TimesSent(extracted[k])

\* C37 (SpecRepeat): the bytes of a frame that is still incomplete stay in
\* the buffer, so once every byte has been read each frame the pump sent has
\* been extracted, also a frame with a wrapper block 50 03 FA inside it.
C37_IncompleteFrameKept ==
    wire = <<>> =>
        \A i \in 1..Len(fed) :
            Len(extractFrames(fed[i])) = 1
                => TimesExtracted(extractFrames(fed[i])[1]) >= 1

\* C38 (SpecOpen): under every interleaving of connect() calls at most one
\* SerialPort is open, an open SerialPort has exactly one 'data' handler, and
\* so no frame is extracted more often than the pump sent it.
C38_ChunkAppendedOnce ==
    /\ Cardinality({k \in 1..Len(port.devices) : port.devices[k].state = "open"}) <= 1
    /\ \A k \in 1..Len(port.devices) :
          port.devices[k].state = "open" => port.devices[k].handlers = 1
    /\ Len(extracted) <= Len(fed)

\* C39 (SpecPump): after the client has handled a pump message, the state's
\* lastUpdate is the timestamp of that message and its address is the address
\* the message came from.
C39_LastMessageStamped ==
    [][Deliver => (/\ pumpState'.lastUpdate = Head(wsQueue).timestamp
                   /\ pumpState'.address = Head(wsQueue).address)]_vars

\* no SerialPort of the handler holds its device open: none was opened, or
\* each was closed by disconnect() or closed by itself
NotConnected == \A k \in 1..Len(port.devices) : port.devices[k].state = "closed"

\* C40 (SpecOffline): a POST /send handled while no device is open is answered
\* with an error status, hands no buffer to port.write, and leaves the
\* connection state, the port with its configuration and the reassembly
\* buffer as they were.
C40_SendWhileOffline ==
    [][(SendGateway /\ NotConnected)
       => (/\ Len(calls') = Len(calls) + 1
           /\ calls'[Len(calls')].phase = "answered"
           /\ calls'[Len(calls')].http >= 400
           /\ ~calls'[Len(calls')].written
           /\ portWrites' = portWrites
           /\ isConnected' = isConnected
           /\ port' = port
           /\ byteBuffer' = byteBuffer)]_vars

C40_Witness ==
    /\ NotConnected
    /\ port.ref # 0
    /\ Len(calls) = 2
    /\ calls[1].written
    /\ calls[2].error = "not connected"
    /\ calls[2].http = 500
    /\ Len(portWrites) = 1

====
